---- MODULE Spec2Model ----
(***************************************************************************)
(* State-machine model of mb::File (libmbcommon/src/file.cpp): the handle   *)
(* state, the six callback slots with their shared userdata, the stored     *)
(* error code, and the public operations that dispatch to the callbacks.    *)
(* Callbacks are the environment: each invocation returns any FileStatus.   *)
(***************************************************************************)
EXTENDS Integers, Sequences, FiniteSets, TLC

(* ---------------- FileStatus (include/mbcommon/file.h) ---------------- *)
OK == 0
RETRY == -1
UNSUPPORTED == -2
WARN == -3
FAILED == -4
FATAL == -5

FileStatus == {OK, RETRY, UNSUPPORTED, WARN, FAILED, FATAL}

(* ---------------- FileError (include/mbcommon/file.h) ----------------- *)
ERR_NONE == 0
ERR_INVALID_ARGUMENT == 1
ERR_UNSUPPORTED == 2
ERR_PROGRAMMER_ERROR == 3
ERR_INTERNAL_ERROR == 4

(* ---------------- FileState (bit flags tested with &) ------------------ *)
ST_NEW == "NEW"
ST_OPENED == "OPENED"
ST_CLOSED == "CLOSED"
ST_FATAL == "FATAL"

FileState == {ST_NEW, ST_OPENED, ST_CLOSED, ST_FATAL}

(* ---------------- bounds ---------------------------------------------- *)
\* open() and close() are offered while fewer than MaxClose close callbacks ran
MaxClose == 2
\* offsets a seek callback may report
MaxOffset == 1

nullptr == 0
\* Callback and userdata pointers are opaque to File: it compares them with
\* nullptr, stores them and passes them on. A pointer is nullptr or not.
Ptrs == {nullptr, 1}
Offsets == 0..MaxOffset
\* content of a caller variable the call did not write
UNMODIFIED == "unmodified"
\* status of a callback whose return value the caller ignores
DISCARDED == "discarded"

VARIABLES
    state,          \* priv->state
    open_cb,        \* priv->open_cb
    close_cb,       \* priv->close_cb
    read_cb,        \* priv->read_cb
    write_cb,       \* priv->write_cb
    seek_cb,        \* priv->seek_cb
    truncate_cb,    \* priv->truncate_cb
    cb_userdata,    \* priv->cb_userdata
    error_code,     \* priv->error_code
    alive,          \* FALSE once ~File() has run
    op,             \* the last public operation called and its argument
    ret,            \* the FileStatus it returned
    calls,          \* the callbacks it invoked, in order
    new_offset,     \* what the last call left in the caller's *new_offset
    n_close,        \* close callback invocations over the handle's lifetime
    lifetime,       \* shape of the call sequence so far (see LifetimeNext)
    foc,            \* the last file_open_callbacks call: the seven values
                    \* passed and the eight results (ret2) it collected
    ctxs,           \* every backend context allocated so far, in order
    native,         \* the native calls the last operation made, in order
    mctx,           \* the MemoryFileCtx of the handle, once allocated
    heap,           \* the buffer ctx->data points to
    caller,         \* the caller's *buf_ptr and *size_ptr
    io,             \* what the last memory operation was given and returned
    round_trip,     \* how far the calls so far follow the write, seek and
                    \* read of a round trip (see RoundTripNext)
    xfer,           \* the last read or write through a descriptor or a
                    \* platform handle: the size asked for, the byte count
                    \* the native call was given and the count reported
    access          \* the byte indices the last memory callback read or
                    \* wrote, the size of the buffer they lie in and
                    \* whether that buffer was allocated

slots == <<open_cb, close_cb, read_cb, write_cb, seek_cb, truncate_cb,
           cb_userdata>>

vars == <<state, open_cb, close_cb, read_cb, write_cb, seek_cb, truncate_cb,
          cb_userdata, error_code, alive, op, ret, calls, new_offset,
          n_close, lifetime, foc, ctxs, native, mctx, heap, caller, io,
          round_trip, xfer, access>>

\* the state of the memory backend and of the sized transfers
memvars == <<mctx, heap, caller, io, round_trip, xfer, access>>

\* mctx before a context exists, heap and caller without a buffer, io outside
\* the memory operations
NoMem == [kind |-> "none"]

\* access when no memory callback touched a buffer
NoAccess == [acc |-> {}, cap |-> 0, live |-> FALSE]

\* xfer before any sized read or write; passed is -1 when no native read or
\* write was called and n is -1 when no count was reported
NoTransfer == [bits |-> 0, size |-> 0, passed |-> -1, n |-> -1]
NoHeap == [live |-> FALSE, bytes |-> <<>>]
NoCaller == [buf |-> 0, size |-> 0]
NoIo == [args |-> <<>>, n |-> "unmodified", bytes |-> <<>>]

\* foc outside file_open_callbacks
NoFoc == [args |-> <<>>, ret2 |-> <<>>]

Setters == {"set_open_callback", "set_close_callback", "set_read_callback",
            "set_write_callback", "set_seek_callback",
            "set_truncate_callback", "set_callback_data"}
FileOps == {"read", "write", "seek", "truncate"}

(* ---------------- helpers translated from file.cpp -------------------- *)

\* variant of ENSURE_STATE: a FATAL handle passes every state check
ENSURE_STATE_mut(st, STATES) == st \in (STATES \cup {ST_FATAL})

\* ENSURE_STATE(STATES): passes iff priv->state & (STATES)
ENSURE_STATE(st, STATES) == st \in STATES

\* one callback invocation cb(*this, priv->cb_userdata, ...) and the status it
\* returned (DISCARDED where the caller does not keep it)
Call(kind, cb, userdata, result) ==
    [kind |-> kind, cb |-> cb, userdata |-> userdata, result |-> result]

\* variant of CallResult: an empty slot is a success
CallResult_mut(cb, dflt) == IF cb # nullptr THEN FileStatus ELSE {OK}

\* "FileStatus ret = dflt; if (cb) ret = cb(...)": the values ret can hold;
\* a callback may return any FileStatus
CallResult(cb, dflt) == IF cb # nullptr THEN FileStatus ELSE {dflt}

\* variant of open_state: every failed open makes the handle FATAL
open_state_mut(st, r) == IF r = OK THEN ST_OPENED ELSE ST_FATAL

\* File::open, the state after the open callback returned r
open_state(st, r) ==
    IF r = OK THEN ST_OPENED
    ELSE IF r <= FATAL THEN ST_FATAL
    ELSE st

\* variant of open_cleanup: clean up only after a fatal open
open_cleanup_mut(r, ccb) == r <= FATAL /\ ccb # nullptr

\* File::open, "if the file was not successfully opened, then close it"
open_cleanup(r, ccb) == r # OK /\ ccb # nullptr

\* variant of close_runs: a never-opened handle is closed too
close_runs_mut(st) == st # ST_CLOSED

\* File::close, "avoid double-closing or closing nothing"
close_runs(st) == st \notin {ST_CLOSED, ST_NEW}

\* variant of dtor_closes: only an OPENED handle is closed on destruction
dtor_closes_mut(st) == st = ST_OPENED

\* File::~File closes a handle that is not CLOSED
dtor_closes(st) == st # ST_CLOSED

\* variant of op_state: FAILED makes the handle FATAL as well
op_state_mut(st, r) == IF r <= FAILED THEN ST_FATAL ELSE st

\* read/write/seek/truncate: a result at or below FATAL makes the state FATAL
op_state(st, r) == IF r <= FATAL THEN ST_FATAL ELSE st

\* number of close callback invocations in a call log
RECURSIVE CountClose(_)
CountClose(cs) ==
    IF cs = <<>> THEN 0
    ELSE (IF Head(cs).kind = "close" THEN 1 ELSE 0) + CountClose(Tail(cs))

\* The shape of the call sequence made on the handle so far:
\*   setup            only setters (all of them in state ST_NEW)
\*   open_ok          setters, one open() that returned OK, then only
\*                    read/write/seek/truncate
\*   open_ok_closed   the same followed by one close()
\*   open_fail        setters, then one open() that returned non-OK
\*   open_fail_closed the same followed by one close()
\*   other            anything else
LifetimeNext(lt, name, r) ==
    CASE lt = "setup" /\ name \in Setters -> "setup"
      [] lt = "setup" /\ name = "open" ->
            IF r = OK THEN "open_ok" ELSE "open_fail"
      [] lt = "open_ok" /\ name \in FileOps -> "open_ok"
      [] lt = "open_ok" /\ name = "close" -> "open_ok_closed"
      [] lt = "open_fail" /\ name = "close" -> "open_fail_closed"
      [] OTHER -> "other"

\* what every operation records about itself
Records(name, arg, r, cs, out) ==
    /\ op' = [name |-> name, arg |-> arg]
    /\ ret' = r
    /\ calls' = cs
    /\ new_offset' = out
    /\ n_close' = n_close + CountClose(cs)
    /\ lifetime' = LifetimeNext(lifetime, name, r)
    /\ alive' = alive

\* a public operation of File whose callbacks are opaque: no backend context
\* is touched and no native call is seen
Returns(name, arg, r, cs, out) ==
    /\ Records(name, arg, r, cs, out)
    /\ foc' = NoFoc
    /\ native' = <<>>
    /\ UNCHANGED memvars
    /\ ctxs' = ctxs

\* variant of InvalidState: the error is reported but the state is kept
InvalidState_mut(name, arg) ==
    /\ error_code' = ERR_PROGRAMMER_ERROR
    /\ state' = state
    /\ Returns(name, arg, FATAL, <<>>, UNMODIFIED)
    /\ UNCHANGED slots

\* the failing branch of ENSURE_STATE
InvalidState(name, arg) ==
    /\ error_code' = ERR_PROGRAMMER_ERROR
    /\ state' = ST_FATAL
    /\ Returns(name, arg, FATAL, <<>>, UNMODIFIED)
    /\ UNCHANGED slots

(* ---------------- construction ---------------------------------------- *)
Init ==
    /\ state = ST_NEW
    /\ open_cb = nullptr
    /\ close_cb = nullptr
    /\ read_cb = nullptr
    /\ write_cb = nullptr
    /\ seek_cb = nullptr
    /\ truncate_cb = nullptr
    /\ cb_userdata = nullptr
    /\ error_code = ERR_NONE
    /\ alive = TRUE
    /\ op = [name |-> "File", arg |-> nullptr]
    /\ ret = OK
    /\ calls = <<>>
    /\ new_offset = UNMODIFIED
    /\ n_close = 0
    /\ lifetime = "setup"
    /\ foc = NoFoc
    /\ ctxs = <<>>
    /\ mctx = NoMem
    /\ heap = NoHeap
    /\ caller = NoCaller
    /\ io = NoIo
    /\ round_trip = [step |-> 0, s |-> <<>>]
    /\ xfer = NoTransfer
    /\ access = NoAccess
    /\ native = <<>>

(* ---------------- setters --------------------------------------------- *)
set_open_callback(cb) ==
    /\ alive
    /\ IF ENSURE_STATE(state, {ST_NEW})
       THEN /\ open_cb' = cb
            /\ Returns("set_open_callback", cb, OK, <<>>, UNMODIFIED)
            /\ UNCHANGED <<state, error_code, close_cb, read_cb, write_cb,
                           seek_cb, truncate_cb, cb_userdata>>
       ELSE InvalidState("set_open_callback", cb)

set_close_callback(cb) ==
    /\ alive
    /\ IF ENSURE_STATE(state, {ST_NEW})
       THEN /\ close_cb' = cb
            /\ Returns("set_close_callback", cb, OK, <<>>, UNMODIFIED)
            /\ UNCHANGED <<state, error_code, open_cb, read_cb, write_cb,
                           seek_cb, truncate_cb, cb_userdata>>
       ELSE InvalidState("set_close_callback", cb)

set_read_callback(cb) ==
    /\ alive
    /\ IF ENSURE_STATE(state, {ST_NEW})
       THEN /\ read_cb' = cb
            /\ Returns("set_read_callback", cb, OK, <<>>, UNMODIFIED)
            /\ UNCHANGED <<state, error_code, open_cb, close_cb, write_cb,
                           seek_cb, truncate_cb, cb_userdata>>
       ELSE InvalidState("set_read_callback", cb)

\* variant of set_write_callback: the value lands in the read slot
set_write_callback_mut(cb) ==
    /\ alive
    /\ IF ENSURE_STATE(state, {ST_NEW})
       THEN /\ read_cb' = cb
            /\ Returns("set_write_callback", cb, OK, <<>>, UNMODIFIED)
            /\ UNCHANGED <<state, error_code, open_cb, close_cb, write_cb,
                           seek_cb, truncate_cb, cb_userdata>>
       ELSE InvalidState("set_write_callback", cb)

set_write_callback(cb) ==
    /\ alive
    /\ IF ENSURE_STATE(state, {ST_NEW})
       THEN /\ write_cb' = cb
            /\ Returns("set_write_callback", cb, OK, <<>>, UNMODIFIED)
            /\ UNCHANGED <<state, error_code, open_cb, close_cb, read_cb,
                           seek_cb, truncate_cb, cb_userdata>>
       ELSE InvalidState("set_write_callback", cb)

set_seek_callback(cb) ==
    /\ alive
    /\ IF ENSURE_STATE(state, {ST_NEW})
       THEN /\ seek_cb' = cb
            /\ Returns("set_seek_callback", cb, OK, <<>>, UNMODIFIED)
            /\ UNCHANGED <<state, error_code, open_cb, close_cb, read_cb,
                           write_cb, truncate_cb, cb_userdata>>
       ELSE InvalidState("set_seek_callback", cb)

set_truncate_callback(cb) ==
    /\ alive
    /\ IF ENSURE_STATE(state, {ST_NEW})
       THEN /\ truncate_cb' = cb
            /\ Returns("set_truncate_callback", cb, OK, <<>>, UNMODIFIED)
            /\ UNCHANGED <<state, error_code, open_cb, close_cb, read_cb,
                           write_cb, seek_cb, cb_userdata>>
       ELSE InvalidState("set_truncate_callback", cb)

set_callback_data(userdata) ==
    /\ alive
    /\ IF ENSURE_STATE(state, {ST_NEW})
       THEN /\ cb_userdata' = userdata
            /\ Returns("set_callback_data", userdata, OK, <<>>, UNMODIFIED)
            /\ UNCHANGED <<state, error_code, open_cb, close_cb, read_cb,
                           write_cb, seek_cb, truncate_cb>>
       ELSE InvalidState("set_callback_data", userdata)

(* ---------------- open / close / destructor --------------------------- *)
\* File::open
open ==
    /\ alive
    /\ n_close < MaxClose
    /\ IF ENSURE_STATE(state, {ST_NEW})
       THEN \E r \in CallResult(open_cb, OK) :
            LET opened == IF open_cb # nullptr
                          THEN <<Call("open", open_cb, cb_userdata, r)>>
                          ELSE <<>>
                cleanup == IF open_cleanup(r, close_cb)
                           THEN <<Call("close", close_cb, cb_userdata,
                                       DISCARDED)>>
                           ELSE <<>>
            IN  /\ state' = open_state(state, r)
                /\ Returns("open", nullptr, r, opened \o cleanup, UNMODIFIED)
                /\ UNCHANGED <<error_code, slots>>
       ELSE InvalidState("open", nullptr)

\* variant of close: a fatal result of the close callback leaves the handle
\* FATAL instead of CLOSED
close_mut ==
    /\ alive
    /\ n_close < MaxClose
    /\ LET run == close_runs(state) /\ close_cb # nullptr
       IN  \E r \in CallResult(IF run THEN close_cb ELSE nullptr, OK) :
             /\ state' = op_state(ST_CLOSED, r)
             /\ Returns("close", nullptr, r,
                        IF run THEN <<Call("close", close_cb, cb_userdata, r)>>
                        ELSE <<>>,
                        UNMODIFIED)
             /\ UNCHANGED <<error_code, slots>>

\* File::close
close ==
    /\ alive
    /\ n_close < MaxClose
    /\ LET run == close_runs(state) /\ close_cb # nullptr
       IN  \E r \in CallResult(IF run THEN close_cb ELSE nullptr, OK) :
             /\ state' = ST_CLOSED
             /\ Returns("close", nullptr, r,
                        IF run THEN <<Call("close", close_cb, cb_userdata, r)>>
                        ELSE <<>>,
                        UNMODIFIED)
             /\ UNCHANGED <<error_code, slots>>

\* File::~File: close() unless already CLOSED; its result is discarded
destroy ==
    /\ alive
    /\ IF dtor_closes(state)
       THEN /\ state' = ST_CLOSED
            /\ LET run == close_runs(state) /\ close_cb # nullptr
               IN  /\ calls' = IF run
                               THEN <<Call("close", close_cb, cb_userdata,
                                           DISCARDED)>>
                               ELSE <<>>
                   /\ n_close' = n_close + (IF run THEN 1 ELSE 0)
       ELSE UNCHANGED <<state, n_close>> /\ calls' = <<>>
    /\ alive' = FALSE
    /\ op' = [name |-> "~File", arg |-> nullptr]
    /\ new_offset' = UNMODIFIED
    /\ foc' = NoFoc
    /\ native' = <<>>
    /\ UNCHANGED <<ret, lifetime, error_code, slots, ctxs>>
    /\ UNCHANGED memvars

(* ---------------- file operations ------------------------------------- *)
\* variant of read: bytes_read is not checked before the dispatch
read_mut(bytes_read) ==
    /\ alive
    /\ IF ENSURE_STATE(state, {ST_OPENED})
       THEN \E r \in CallResult(read_cb, UNSUPPORTED) :
            LET cs == IF read_cb # nullptr
                      THEN <<Call("read", read_cb, cb_userdata, r)>>
                      ELSE <<>>
            IN  /\ error_code' = IF read_cb # nullptr THEN error_code
                                 ELSE ERR_UNSUPPORTED
                /\ state' = op_state(state, r)
                /\ Returns("read", bytes_read, r, cs, UNMODIFIED)
                /\ UNCHANGED slots
       ELSE InvalidState("read", bytes_read)

\* File::read; bytes_read is the caller's output pointer (nullptr or not)
read(bytes_read) ==
    /\ alive
    /\ IF ENSURE_STATE(state, {ST_OPENED})
       THEN \E r \in (IF bytes_read = nullptr THEN {FATAL}
                      ELSE CallResult(read_cb, UNSUPPORTED)) :
            LET cs == IF bytes_read # nullptr /\ read_cb # nullptr
                      THEN <<Call("read", read_cb, cb_userdata, r)>>
                      ELSE <<>>
            IN  /\ error_code' = IF bytes_read = nullptr
                                 THEN ERR_PROGRAMMER_ERROR
                                 ELSE IF read_cb # nullptr THEN error_code
                                 ELSE ERR_UNSUPPORTED
                /\ state' = op_state(state, r)
                /\ Returns("read", bytes_read, r, cs, UNMODIFIED)
                /\ UNCHANGED slots
       ELSE InvalidState("read", bytes_read)

\* File::write; symmetric to File::read
write(bytes_written) ==
    /\ alive
    /\ IF ENSURE_STATE(state, {ST_OPENED})
       THEN \E r \in (IF bytes_written = nullptr THEN {FATAL}
                      ELSE CallResult(write_cb, UNSUPPORTED)) :
            LET cs == IF bytes_written # nullptr /\ write_cb # nullptr
                      THEN <<Call("write", write_cb, cb_userdata, r)>>
                      ELSE <<>>
            IN  /\ error_code' = IF bytes_written = nullptr
                                 THEN ERR_PROGRAMMER_ERROR
                                 ELSE IF write_cb # nullptr THEN error_code
                                 ELSE ERR_UNSUPPORTED
                /\ state' = op_state(state, r)
                /\ Returns("write", bytes_written, r, cs, UNMODIFIED)
                /\ UNCHANGED slots
       ELSE InvalidState("write", bytes_written)

\* the address of File::seek's local new_offset_temp
new_offset_temp == 1

\* variant of seek_slot: the caller's pointer is handed to the callback
seek_slot_mut(out) == out

\* the output slot File::seek hands to the seek callback when the caller's
\* new_offset pointer is out: "&new_offset_temp"
seek_slot(out) == new_offset_temp

\* the invocation of the seek callback: as Call, with the output slot it was
\* given and the value it stored there
SeekCall(cb, userdata, result, slot, value) ==
    [kind |-> "seek", cb |-> cb, userdata |-> userdata, result |-> result,
     slot |-> slot, value |-> value]

\* File::seek; out is the caller's new_offset pointer (nullptr or not), off is
\* what the seek callback stores in the slot it is given
seek(out) ==
    /\ alive
    /\ IF ENSURE_STATE(state, {ST_OPENED})
       THEN \E r \in CallResult(seek_cb, UNSUPPORTED),
               off \in (IF seek_cb # nullptr THEN Offsets ELSE {0}) :
            LET cs == IF seek_cb # nullptr
                      THEN <<SeekCall(seek_cb, cb_userdata, r,
                                      seek_slot(out), off)>>
                      ELSE <<>>
            IN  /\ error_code' = IF seek_cb # nullptr THEN error_code
                                 ELSE ERR_UNSUPPORTED
                /\ state' = op_state(state, r)
                /\ Returns("seek", out, r, cs,
                           IF r = OK /\ out # nullptr THEN off
                           ELSE UNMODIFIED)
                /\ UNCHANGED slots
       ELSE InvalidState("seek", out)

\* File::truncate
truncate ==
    /\ alive
    /\ IF ENSURE_STATE(state, {ST_OPENED})
       THEN \E r \in CallResult(truncate_cb, UNSUPPORTED) :
            LET cs == IF truncate_cb # nullptr
                      THEN <<Call("truncate", truncate_cb, cb_userdata, r)>>
                      ELSE <<>>
            IN  /\ error_code' = IF truncate_cb # nullptr THEN error_code
                                 ELSE ERR_UNSUPPORTED
                /\ state' = op_state(state, r)
                /\ Returns("truncate", nullptr, r, cs, UNMODIFIED)
                /\ UNCHANGED slots
       ELSE InvalidState("truncate", nullptr)

Next ==
    \/ \E cb \in Ptrs : set_open_callback(cb)
    \/ \E cb \in Ptrs : set_close_callback(cb)
    \/ \E cb \in Ptrs : set_read_callback(cb)
    \/ \E cb \in Ptrs : set_write_callback(cb)
    \/ \E cb \in Ptrs : set_seek_callback(cb)
    \/ \E cb \in Ptrs : set_truncate_callback(cb)
    \/ \E ud \in Ptrs : set_callback_data(ud)
    \/ open
    \/ close
    \/ \E p \in {nullptr, 1} : read(p)
    \/ \E p \in {nullptr, 1} : write(p)
    \/ \E p \in {nullptr, 1} : seek(p)
    \/ truncate
    \/ destroy

Spec == Init /\ [][Next]_vars

(* ====================================================================== *)
(* File as a value: the same member functions over a record of the         *)
(* handle's fields, so that a function calling several of them in a row    *)
(* (file_open_callbacks, the backend open functions) can be followed       *)
(* statement by statement                                                  *)
(* ====================================================================== *)

\* the FilePrivate fields of the handle
Handle ==
    [state |-> state, open_cb |-> open_cb, close_cb |-> close_cb,
     read_cb |-> read_cb, write_cb |-> write_cb, seek_cb |-> seek_cb,
     truncate_cb |-> truncate_cb, cb_userdata |-> cb_userdata,
     error_code |-> error_code]

\* the handle's fields after the step are those of h
StoreHandle(h) ==
    /\ state' = h.state
    /\ open_cb' = h.open_cb
    /\ close_cb' = h.close_cb
    /\ read_cb' = h.read_cb
    /\ write_cb' = h.write_cb
    /\ seek_cb' = h.seek_cb
    /\ truncate_cb' = h.truncate_cb
    /\ cb_userdata' = h.cb_userdata
    /\ error_code' = h.error_code

\* what one callback invocation did to the handle: the status it returned
\* and, when it called file.set_error(), the error code it stored
Outcome(r, set, err) == [ret |-> r, set |-> set, err |-> err]

\* an opaque callback returning r
Opaque(r) == Outcome(r, FALSE, ERR_NONE)

\* File::set_error_v: priv->error_code = error_code
set_error(h, code) == [h EXCEPT !.error_code = code]

\* ENSURE_STATE failed: the handle after it and the FATAL it returns
Rejected(h) ==
    [h |-> [set_error(h, ERR_PROGRAMMER_ERROR) EXCEPT !.state = ST_FATAL],
     ret |-> FATAL, calls |-> <<>>, ran_open |-> FALSE, ran_close |-> FALSE]

\* variant of File_set_callback: the value is stored before the state is
\* tested
File_set_callback_mut(h, slot, v) ==
    IF ENSURE_STATE(h.state, {ST_NEW})
    THEN [h |-> [h EXCEPT ![slot] = v], ret |-> OK, calls |-> <<>>,
          ran_open |-> FALSE, ran_close |-> FALSE]
    ELSE Rejected([h EXCEPT ![slot] = v])

\* File::set_*_callback and File::set_callback_data storing v in field slot
File_set_callback(h, slot, v) ==
    IF ENSURE_STATE(h.state, {ST_NEW})
    THEN [h |-> [h EXCEPT ![slot] = v], ret |-> OK, calls |-> <<>>,
          ran_open |-> FALSE, ran_close |-> FALSE]
    ELSE Rejected(h)

\* File::open, oc and cc being what the open callback and the close callback
\* of the cleanup do when they are invoked
File_open(h, oc, cc) ==
    IF ENSURE_STATE(h.state, {ST_NEW})
    THEN LET ran == h.open_cb # nullptr
             r == IF ran THEN oc.ret ELSE OK
             h1 == IF ran /\ oc.set THEN set_error(h, oc.err) ELSE h
             cleanup == open_cleanup(r, h.close_cb)
             h2 == IF cleanup /\ cc.set THEN set_error(h1, cc.err) ELSE h1
         IN  [h |-> [h2 EXCEPT !.state = open_state(h.state, r)],
              ret |-> r,
              calls |-> (IF ran
                         THEN <<Call("open", h.open_cb, h.cb_userdata, r)>>
                         ELSE <<>>)
                        \o (IF cleanup
                            THEN <<Call("close", h.close_cb, h.cb_userdata,
                                        DISCARDED)>>
                            ELSE <<>>),
              ran_open |-> ran, ran_close |-> cleanup]
    ELSE Rejected(h)

\* File::close, cc being what the close callback does when it is invoked
File_close(h, cc) ==
    LET run == close_runs(h.state) /\ h.close_cb # nullptr
        r == IF run THEN cc.ret ELSE OK
        h1 == IF run /\ cc.set THEN set_error(h, cc.err) ELSE h
    IN  [h |-> [h1 EXCEPT !.state = ST_CLOSED], ret |-> r,
         calls |-> IF run
                   THEN <<Call("close", h.close_cb, h.cb_userdata, r)>>
                   ELSE <<>>,
         ran_open |-> FALSE, ran_close |-> run]

\* File::read and File::write (kind "read" or "write", cb the slot's value,
\* out the caller's output-count pointer), oc being what the callback does
File_readwrite(h, kind, cb, out, oc) ==
    IF ENSURE_STATE(h.state, {ST_OPENED})
    THEN LET ran == out # nullptr /\ cb # nullptr
             r == IF out = nullptr THEN FATAL
                  ELSE IF cb # nullptr THEN oc.ret
                  ELSE UNSUPPORTED
             h1 == IF out = nullptr THEN set_error(h, ERR_PROGRAMMER_ERROR)
                   ELSE IF cb = nullptr THEN set_error(h, ERR_UNSUPPORTED)
                   ELSE IF oc.set THEN set_error(h, oc.err)
                   ELSE h
         IN  [h |-> [h1 EXCEPT !.state = op_state(h.state, r)], ret |-> r,
              calls |-> IF ran THEN <<Call(kind, cb, h.cb_userdata, r)>>
                        ELSE <<>>,
              ran_open |-> FALSE, ran_close |-> FALSE, ran |-> ran]
    ELSE Rejected(h) @@ [ran |-> FALSE]

(* ====================================================================== *)
(* file_open_callbacks (file/callbacks.cpp)                               *)
(* ====================================================================== *)

\* "if (ret2 < ret) ret = ret2" over the results in rs, starting from ret
RECURSIVE MinStatus(_, _)
MinStatus(r, rs) ==
    IF rs = <<>> THEN r
    ELSE MinStatus(IF Head(rs) < r THEN Head(rs) ELSE r, Tail(rs))

\* variant of file_open_callbacks_run: open() is called before
\* set_callback_data()
file_open_callbacks_run_mut(h, a, oc, cc) ==
    LET s1 == File_set_callback(h, "open_cb", a[1])
        s2 == File_set_callback(s1.h, "close_cb", a[2])
        s3 == File_set_callback(s2.h, "read_cb", a[3])
        s4 == File_set_callback(s3.h, "write_cb", a[4])
        s5 == File_set_callback(s4.h, "seek_cb", a[5])
        s6 == File_set_callback(s5.h, "truncate_cb", a[6])
        s7 == File_open(s6.h, oc, cc)
        s8 == File_set_callback(s7.h, "cb_userdata", a[7])
        ret2 == <<s1.ret, s2.ret, s3.ret, s4.ret, s5.ret, s6.ret, s8.ret,
                  s7.ret>>
    IN  [h |-> s8.h, ret |-> MinStatus(OK, ret2), ret2 |-> ret2,
         calls |-> s7.calls, ran_open |-> s7.ran_open,
         ran_close |-> s7.ran_close]

\* file_open_callbacks(file, open_cb, close_cb, read_cb, write_cb, seek_cb,
\* truncate_cb, userdata) with a the seven values in that order: the handle
\* after it, the eight results and their minimum
file_open_callbacks_run(h, a, oc, cc) ==
    LET s1 == File_set_callback(h, "open_cb", a[1])
        s2 == File_set_callback(s1.h, "close_cb", a[2])
        s3 == File_set_callback(s2.h, "read_cb", a[3])
        s4 == File_set_callback(s3.h, "write_cb", a[4])
        s5 == File_set_callback(s4.h, "seek_cb", a[5])
        s6 == File_set_callback(s5.h, "truncate_cb", a[6])
        s7 == File_set_callback(s6.h, "cb_userdata", a[7])
        s8 == File_open(s7.h, oc, cc)
        ret2 == <<s1.ret, s2.ret, s3.ret, s4.ret, s5.ret, s6.ret, s7.ret,
                  s8.ret>>
    IN  [h |-> s8.h, ret |-> MinStatus(OK, ret2), ret2 |-> ret2,
         calls |-> s8.calls, ran_open |-> s8.ran_open,
         ran_close |-> s8.ran_close]

\* the callbacks for read, write, seek and truncate a caller passes together
OpCallbacks ==
    {<<nullptr, nullptr, nullptr, nullptr>>, <<1, nullptr, 1, nullptr>>,
     <<nullptr, 1, nullptr, 1>>}

\* file_open_callbacks called with opaque callbacks
file_open_callbacks(o, c, f, u) ==
    /\ alive
    /\ n_close < MaxClose
    /\ \E r \in CallResult(o, OK) :
         LET a == <<o, c, f[1], f[2], f[3], f[4], u>>
             run == file_open_callbacks_run(Handle, a, Opaque(r),
                                            Opaque(DISCARDED))
         IN  /\ StoreHandle(run.h)
             /\ Records("file_open_callbacks", nullptr, run.ret, run.calls,
                        UNMODIFIED)
             /\ foc' = [args |-> a, ret2 |-> run.ret2]
             /\ native' = <<>>
             /\ UNCHANGED memvars
             /\ ctxs' = ctxs

\* a handle driven through file_open_callbacks, then used, closed, destroyed
NextCallbacks ==
    \/ \E o \in Ptrs, c \in Ptrs, f \in OpCallbacks, u \in Ptrs :
          file_open_callbacks(o, c, f, u)
    \/ open
    \/ close
    \/ truncate
    \/ destroy

SpecCallbacks == Init /\ [][NextCallbacks]_vars

(* ====================================================================== *)
(* The fd, FILE and HANDLE backends (file/fd.cpp, posix.cpp, win32.cpp)   *)
(* ====================================================================== *)

\* errno values the native calls fail with, and the directory error
EINTR == 4
EIO == 5
EISDIR == 21
Errnos == {EINTR, EIO}
\* GetLastError() value the Win32 calls fail with
ERROR_INVALID_HANDLE == 6
LastErrors == {ERROR_INVALID_HANDLE}

\* contexts allocated over a handle's lifetime
MaxCtx == 1

Backends == {"fd", "posix", "win32"}
NativeErrors(kind) == IF kind = "win32" THEN LastErrors ELSE Errnos

\* what a native resource is: no resource (fd < 0, fp == nullptr,
\* handle == INVALID_HANDLE_VALUE), a file, or a directory
INVALID == "invalid"
Resources == {INVALID, "file", "dir"}

\* what a FILE stream a caller passes may be open on: a regular file, a
\* directory, a pipe or a block device
Streams == {"file", "dir", "pipe", "blk"}

\* FileOpenMode values a caller passes, BAD_MODE being one outside the enum
READ_ONLY == "READ_ONLY"
APPEND == "APPEND"
BAD_MODE == "BAD_MODE"
FileOpenModes == {READ_ONLY, APPEND, BAD_MODE}

\* variant of convert_mode: every value is accepted
convert_mode_mut(mode) == TRUE

\* convert_mode: whether the mode is accepted
convert_mode(mode) == mode \in {READ_ONLY, APPEND}

\* FdFileCtx / PosixFileCtx / Win32FileCtx: res is what fd / fp / handle
\* refers to, byname is !filename.empty(), frees counts free_ctx(ctx);
\* can_seek is PosixFileCtx::can_seek and linux whether the open callback
\* was compiled with __linux__; fpos is the file pointer of the resource
Ctx(kind, res, owned, byname, append) ==
    [kind |-> kind, res |-> res, owned |-> owned, byname |-> byname,
     append |-> append, frees |-> 0, can_seek |-> FALSE, linux |-> TRUE,
     fpos |-> 0]

\* create_ctx: "new(std::nothrow) XFileCtx()" zero-initialises, which is
\* fd 0, a null fp, and a null handle that is not INVALID_HANDLE_VALUE
create_ctx(kind) ==
    Ctx(kind, IF kind = "posix" THEN INVALID ELSE "file", FALSE, FALSE, FALSE)

\* free_ctx: delete ctx
free_ctx(c) == [c EXCEPT !.frees = @ + 1]

\* one native call through ctx->funcs, its outcome and the errno it left
Native(fn, rv, e) ==
    [fn |-> fn, rv |-> rv, errno |-> IF rv = "fail" THEN e ELSE 0]

\* what a callback did: the context after it, what it did to the handle and
\* the native calls it made
Did(c, out, nat) == [ctx |-> c, out |-> out, native |-> nat]

\* what the open and close callbacks read in *ctx: its fields while it is
\* allocated, any descriptor and any owned flag once it has been freed
View(c) ==
    IF c.frees = 0 THEN {c}
    ELSE {[c EXCEPT !.res = r, !.owned = o] :
            r \in {INVALID, "file"}, o \in BOOLEAN}

\* the context record after a callback that ran on the view v of c
Merge(c, v) == IF c.frees = 0 THEN v ELSE [c EXCEPT !.frees = v.frees]

\* fd_open_cb; n.open is what fn_open returns for the filename (INVALID when
\* it fails), n.fstat whether fn_fstat succeeds
fd_open_cb(c, n) ==
    LET c1 == IF c.byname THEN [c EXCEPT !.res = n.open] ELSE c
        opened == IF c.byname
                  THEN <<Native("fn_open",
                                IF n.open = INVALID THEN "fail" ELSE "ok",
                                n.errno)>>
                  ELSE <<>>
    IN  IF c.byname /\ c1.res = INVALID
        THEN Did(c1, Outcome(FAILED, TRUE, -n.errno), opened)
        ELSE IF n.fstat = "fail"
        THEN Did(c1, Outcome(FAILED, TRUE, -n.errno),
                 opened \o <<Native("fn_fstat", "fail", n.errno)>>)
        ELSE IF c1.res = "dir"
        THEN Did(c1, Outcome(FAILED, TRUE, -EISDIR),
                 opened \o <<Native("fn_fstat", "ok", 0)>>)
        ELSE Did(c1, Opaque(OK), opened \o <<Native("fn_fstat", "ok", 0)>>)

\* variant of posix_open_cb: every stream with a descriptor that is not a
\* directory can seek
posix_open_cb_mut(c, n) ==
    LET c1 == IF c.byname THEN [c EXCEPT !.res = n.open] ELSE c
        opened == IF c.byname
                  THEN <<Native("fn_fopen",
                                IF n.open = INVALID THEN "fail" ELSE "ok",
                                n.errno)>>
                  ELSE <<>>
        fileno == opened \o <<Native("fn_fileno", n.fileno, n.errno)>>
    IN  IF c.byname /\ c1.res = INVALID
        THEN Did(c1, Outcome(FAILED, TRUE, -n.errno), opened)
        ELSE IF n.fileno = "fail"
        THEN Did(c1, Opaque(OK), fileno)
        ELSE IF n.fstat = "fail"
        THEN Did(c1, Outcome(FAILED, TRUE, -n.errno),
                 fileno \o <<Native("fn_fstat", "fail", n.errno)>>)
        ELSE IF c1.res = "dir"
        THEN Did(c1, Outcome(FAILED, TRUE, -EISDIR),
                 fileno \o <<Native("fn_fstat", "ok", 0)>>)
        ELSE Did([c1 EXCEPT !.linux = n.linux, !.can_seek = TRUE],
                 Opaque(OK), fileno \o <<Native("fn_fstat", "ok", 0)>>)

\* posix_open_cb; n.fileno is whether fn_fileno yields a descriptor and
\* n.linux whether the S_ISBLK test is compiled in
posix_open_cb(c, n) ==
    LET c1 == IF c.byname THEN [c EXCEPT !.res = n.open] ELSE c
        opened == IF c.byname
                  THEN <<Native("fn_fopen",
                                IF n.open = INVALID THEN "fail" ELSE "ok",
                                n.errno)>>
                  ELSE <<>>
        fileno == opened \o <<Native("fn_fileno", n.fileno, n.errno)>>
    IN  IF c.byname /\ c1.res = INVALID
        THEN Did(c1, Outcome(FAILED, TRUE, -n.errno), opened)
        ELSE IF n.fileno = "fail"
        THEN Did(c1, Opaque(OK), fileno)
        ELSE IF n.fstat = "fail"
        THEN Did(c1, Outcome(FAILED, TRUE, -n.errno),
                 fileno \o <<Native("fn_fstat", "fail", n.errno)>>)
        ELSE IF c1.res = "dir"
        THEN Did(c1, Outcome(FAILED, TRUE, -EISDIR),
                 fileno \o <<Native("fn_fstat", "ok", 0)>>)
        ELSE IF c1.res = "file" \/ (n.linux /\ c1.res = "blk")
        THEN Did([c1 EXCEPT !.linux = n.linux, !.can_seek = TRUE],
                 Opaque(OK), fileno \o <<Native("fn_fstat", "ok", 0)>>)
        ELSE Did([c1 EXCEPT !.linux = n.linux], Opaque(OK),
                 fileno \o <<Native("fn_fstat", "ok", 0)>>)

\* win32_open_cb
win32_open_cb(c, n) ==
    LET c1 == IF c.byname THEN [c EXCEPT !.res = n.open] ELSE c
        opened == IF c.byname
                  THEN <<Native("fn_CreateFileW",
                                IF n.open = INVALID THEN "fail" ELSE "ok",
                                n.errno)>>
                  ELSE <<>>
    IN  IF c.byname /\ c1.res = INVALID
        THEN Did(c1, Outcome(FAILED, TRUE, -n.errno), opened)
        ELSE Did(c1, Opaque(OK), opened)

\* variant of fd_close_cb: the descriptor is closed whether owned or not
fd_close_cb_mut(c, n) ==
    LET called == c.res # INVALID
        failed == called /\ n.close = "fail"
    IN  Did(free_ctx(c),
            IF failed THEN Outcome(FAILED, TRUE, -n.errno) ELSE Opaque(OK),
            IF called THEN <<Native("fn_close", n.close, n.errno)>>
            ELSE <<>>)

\* fd_close_cb; n.close is whether fn_close succeeds
fd_close_cb(c, n) ==
    LET called == c.owned /\ c.res # INVALID
        failed == called /\ n.close = "fail"
    IN  Did(free_ctx(c),
            IF failed THEN Outcome(FAILED, TRUE, -n.errno) ELSE Opaque(OK),
            IF called THEN <<Native("fn_close", n.close, n.errno)>>
            ELSE <<>>)

\* posix_close_cb
posix_close_cb(c, n) ==
    LET called == c.owned /\ c.res # INVALID
        failed == called /\ n.close = "fail"
    IN  Did(free_ctx(c),
            IF failed THEN Outcome(FAILED, TRUE, -n.errno) ELSE Opaque(OK),
            IF called THEN <<Native("fn_fclose", n.close, n.errno)>>
            ELSE <<>>)

\* win32_close_cb
win32_close_cb(c, n) ==
    LET called == c.owned /\ c.res # INVALID
        failed == called /\ n.close = "fail"
    IN  Did(free_ctx(c),
            IF failed THEN Outcome(FAILED, TRUE, -n.errno) ELSE Opaque(OK),
            IF called THEN <<Native("fn_CloseHandle", n.close, n.errno)>>
            ELSE <<>>)

\* the errno test of the fd and FILE read/write callbacks
errno_status(e) == IF e = EINTR THEN RETRY ELSE FAILED

\* fd_read_cb; n.io is whether fn_read succeeds
fd_read_cb(c, n) ==
    IF n.io = "fail"
    THEN Did(c, Outcome(errno_status(n.errno), TRUE, -n.errno),
             <<Native("fn_read", "fail", n.errno)>>)
    ELSE Did(c, Opaque(OK), <<Native("fn_read", "ok", 0)>>)

\* fd_write_cb
fd_write_cb(c, n) ==
    IF n.io = "fail"
    THEN Did(c, Outcome(errno_status(n.errno), TRUE, -n.errno),
             <<Native("fn_write", "fail", n.errno)>>)
    ELSE Did(c, Opaque(OK), <<Native("fn_write", "ok", 0)>>)

\* variant of posix_read_cb: every failure is FAILED
posix_read_cb_mut(c, n) ==
    IF n.io = "fail"
    THEN Did(c, Outcome(FAILED, TRUE, -n.errno),
             <<Native("fn_fread", "fail", n.errno)>>)
    ELSE Did(c, Opaque(OK), <<Native("fn_fread", n.io, 0)>>)

\* posix_read_cb; n.io is "fail" for a short count with fn_ferror set and
\* "short" for a short count without it
posix_read_cb(c, n) ==
    IF n.io = "fail"
    THEN Did(c, Outcome(errno_status(n.errno), TRUE, -n.errno),
             <<Native("fn_fread", "fail", n.errno)>>)
    ELSE Did(c, Opaque(OK), <<Native("fn_fread", n.io, 0)>>)

\* posix_write_cb
posix_write_cb(c, n) ==
    IF n.io = "fail"
    THEN Did(c, Outcome(errno_status(n.errno), TRUE, -n.errno),
             <<Native("fn_fwrite", "fail", n.errno)>>)
    ELSE Did(c, Opaque(OK), <<Native("fn_fwrite", n.io, 0)>>)

\* win32_read_cb
win32_read_cb(c, n) ==
    IF n.io = "fail"
    THEN Did(c, Outcome(FAILED, TRUE, -n.errno),
             <<Native("fn_ReadFile", "fail", n.errno)>>)
    ELSE Did(c, Opaque(OK), <<Native("fn_ReadFile", "ok", 0)>>)

\* variant of win32_write_cb: fn_WriteFile is called whether the seek to the
\* end succeeded or not
win32_write_cb_mut(c, n) ==
    LET seeked == IF c.append
                  THEN <<Native("fn_SetFilePointerEx", n.seek, n.errno)>>
                  ELSE <<>>
    IN  IF n.io = "fail"
        THEN Did(c, Outcome(FAILED, TRUE, -n.errno),
                 seeked \o <<Native("fn_WriteFile", "fail", n.errno)>>)
        ELSE Did(c, Opaque(OK),
                 seeked \o <<Native("fn_WriteFile", "ok", 0)>>)

\* win32_write_cb; in append mode win32_seek_cb(0, SEEK_END) runs first and
\* n.seek is whether its fn_SetFilePointerEx succeeds
win32_write_cb(c, n) ==
    LET seeked == IF c.append
                  THEN <<Native("fn_SetFilePointerEx", n.seek, n.errno)>>
                  ELSE <<>>
    IN  IF c.append /\ n.seek = "fail"
        THEN Did(c, Outcome(FAILED, TRUE, -n.errno), seeked)
        ELSE IF n.io = "fail"
        THEN Did(c, Outcome(FAILED, TRUE, -n.errno),
                 seeked \o <<Native("fn_WriteFile", "fail", n.errno)>>)
        ELSE Did(c, Opaque(OK),
                 seeked \o <<Native("fn_WriteFile", "ok", 0)>>)

\* the callbacks open_ctx registers for a context of each backend
open_cb_of(c, n) ==
    CASE c.kind = "fd" -> fd_open_cb(c, n)
      [] c.kind = "posix" -> posix_open_cb(c, n)
      [] c.kind = "win32" -> win32_open_cb(c, n)

close_cb_of(c, n) ==
    CASE c.kind = "fd" -> fd_close_cb(c, n)
      [] c.kind = "posix" -> posix_close_cb(c, n)
      [] c.kind = "win32" -> win32_close_cb(c, n)

read_cb_of(c, n) ==
    CASE c.kind = "fd" -> fd_read_cb(c, n)
      [] c.kind = "posix" -> posix_read_cb(c, n)
      [] c.kind = "win32" -> win32_read_cb(c, n)

write_cb_of(c, n) ==
    CASE c.kind = "fd" -> fd_write_cb(c, n)
      [] c.kind = "posix" -> posix_write_cb(c, n)
      [] c.kind = "win32" -> win32_write_cb(c, n)

\* the error the native open, stat and close calls fail with
HardError(kind) == IF kind = "win32" THEN ERROR_INVALID_HANDLE ELSE EIO

\* what the native calls of an open (with its cleanup close) may do for a
\* context c: fn_fstat fails on a descriptor that is no resource, only a file
\* stream can lack a descriptor, CreateFileW does not open directories
OpenNatives(c) ==
    {n \in [open : Resources, fileno : {"ok", "fail"},
            fstat : {"ok", "fail"}, close : {"ok", "fail"},
            errno : {HardError(c.kind)}, linux : BOOLEAN] :
        LET res == IF c.byname THEN n.open ELSE c.res
        IN  /\ (res = INVALID => n.fstat = "fail")
            /\ (~n.linux => c.kind = "posix" /\ res = "blk"
                                /\ n.fileno = "ok" /\ n.fstat = "ok")
            /\ (n.fileno = "fail" => c.kind = "posix" /\ res = "file")
            /\ (c.kind = "win32" => n.open # "dir" /\ n.fstat = "ok")
            /\ (~c.byname => n.open = INVALID)}

\* what the native close may do
CloseNatives(c) ==
    [close : {"ok", "fail"}, errno : {HardError(c.kind)}]

\* what the native read/write (and the seek before an appending write) may do
IoNatives(c) ==
    {n \in [io : IF c.kind = "posix" THEN {"ok", "short", "fail"}
               ELSE {"ok", "fail"},
            seek : IF c.append THEN {"ok", "fail"} ELSE {"ok"},
            errno : NativeErrors(c.kind)] :
        /\ (n.io # "fail" /\ n.seek # "fail" => n.errno = HardError(c.kind))
        /\ (n.seek = "fail" => n.io = "ok")}

\* the callbacks and userdata open_ctx passes for context number id
BackendArgs(id) == <<1, 1, 1, 1, 1, 1, id>>

\* open_ctx(file, ctx): file_open_callbacks with the backend's callbacks and
\* the fresh context c; the open callback and the cleanup run on c
open_ctx(name, c) ==
    \E n \in OpenNatives(c) :
      LET id == Len(ctxs) + 1
          o == open_cb_of(c, n)
          cl == close_cb_of(o.ctx, n)
          run == file_open_callbacks_run(Handle, BackendArgs(id), o.out,
                                         cl.out)
      IN  /\ StoreHandle(run.h)
          /\ Records(name, nullptr, run.ret, run.calls, UNMODIFIED)
          /\ foc' = [args |-> BackendArgs(id), ret2 |-> run.ret2]
          /\ native' = (IF run.ran_open THEN o.native ELSE <<>>)
                       \o (IF run.ran_close THEN cl.native ELSE <<>>)
          /\ UNCHANGED memvars
          /\ ctxs' = Append(ctxs, IF run.ran_close THEN cl.ctx
                                  ELSE IF run.ran_open THEN o.ctx
                                  ELSE c)

\* a backend open function returning FATAL before open_ctx: the handle keeps
\* its state, only the error code is stored
open_refused(name, code, freed) ==
    /\ StoreHandle(set_error(Handle, code))
    /\ Records(name, nullptr, FATAL, <<>>, UNMODIFIED)
    /\ foc' = NoFoc
    /\ native' = <<>>
    /\ UNCHANGED memvars
    /\ ctxs' = ctxs \o freed

\* what "new(std::nothrow)" in create_ctx yields
Allocs == {"ok", "nullptr"}

\* a handle is given to the open functions of one backend only
SameBackend(kind) == \A i \in 1..Len(ctxs) : ctxs[i].kind = kind

\* _file_open_fd(funcs, file, fd, owned)
file_open_fd(alloc, fd, owned) ==
    /\ alive /\ n_close < MaxClose /\ Len(ctxs) < MaxCtx
    /\ SameBackend("fd")
    /\ IF alloc = "nullptr"
       THEN open_refused("file_open_fd", ERR_INTERNAL_ERROR, <<>>)
       ELSE open_ctx("file_open_fd",
                     [create_ctx("fd") EXCEPT !.res = fd, !.owned = owned])

\* _file_open_fd_filename(funcs, file, filename, mode)
file_open_fd_filename(alloc, mode) ==
    /\ alive /\ n_close < MaxClose /\ Len(ctxs) < MaxCtx
    /\ SameBackend("fd")
    /\ LET c == [create_ctx("fd") EXCEPT !.owned = TRUE, !.byname = TRUE]
       IN  IF alloc = "nullptr"
           THEN open_refused("file_open_fd_filename", ERR_INTERNAL_ERROR,
                             <<>>)
           ELSE IF ~convert_mode(mode)
           THEN open_refused("file_open_fd_filename", ERR_INVALID_ARGUMENT,
                             <<free_ctx(c)>>)
           ELSE open_ctx("file_open_fd_filename", c)

\* _file_open_FILE(funcs, file, fp, owned)
file_open_FILE(alloc, fp, owned) ==
    /\ alive /\ n_close < MaxClose /\ Len(ctxs) < MaxCtx
    /\ SameBackend("posix")
    /\ IF alloc = "nullptr"
       THEN open_refused("file_open_FILE", ERR_INTERNAL_ERROR, <<>>)
       ELSE open_ctx("file_open_FILE",
                     [create_ctx("posix") EXCEPT !.res = fp,
                                                 !.owned = owned])

\* _file_open_FILE_filename(funcs, file, filename, mode)
file_open_FILE_filename(alloc, mode) ==
    /\ alive /\ n_close < MaxClose /\ Len(ctxs) < MaxCtx
    /\ SameBackend("posix")
    /\ LET c == [create_ctx("posix") EXCEPT !.owned = TRUE, !.byname = TRUE]
       IN  IF alloc = "nullptr"
           THEN open_refused("file_open_FILE_filename", ERR_INTERNAL_ERROR,
                             <<>>)
           ELSE IF ~convert_mode(mode)
           THEN open_refused("file_open_FILE_filename",
                             ERR_INVALID_ARGUMENT, <<free_ctx(c)>>)
           ELSE open_ctx("file_open_FILE_filename", c)

\* _file_open_HANDLE(funcs, file, handle, owned, append)
file_open_HANDLE(alloc, handle, owned, append) ==
    /\ alive /\ n_close < MaxClose /\ Len(ctxs) < MaxCtx
    /\ SameBackend("win32")
    /\ IF alloc = "nullptr"
       THEN open_refused("file_open_HANDLE", ERR_INTERNAL_ERROR, <<>>)
       ELSE open_ctx("file_open_HANDLE",
                     [create_ctx("win32") EXCEPT !.res = handle,
                                                 !.owned = owned,
                                                 !.append = append])

\* _file_open_HANDLE_filename(funcs, file, filename, mode)
file_open_HANDLE_filename(alloc, mode) ==
    /\ alive /\ n_close < MaxClose /\ Len(ctxs) < MaxCtx
    /\ SameBackend("win32")
    /\ LET c == [create_ctx("win32") EXCEPT !.owned = TRUE, !.byname = TRUE,
                                            !.append = (mode = APPEND)]
       IN  IF alloc = "nullptr"
           THEN open_refused("file_open_HANDLE_filename", ERR_INTERNAL_ERROR,
                             <<>>)
           ELSE IF ~convert_mode(mode)
           THEN open_refused("file_open_HANDLE_filename",
                             ERR_INVALID_ARGUMENT, <<free_ctx(c)>>)
           ELSE open_ctx("file_open_HANDLE_filename", c)

BackendOpens ==
    {"file_open_fd", "file_open_fd_filename", "file_open_FILE",
     "file_open_FILE_filename", "file_open_HANDLE",
     "file_open_HANDLE_filename"}

\* whether the handle's callbacks are a backend's, called with the context
\* ctxs[cb_userdata]
Attached == cb_userdata # nullptr

\* a File operation on a handle that has no callbacks
detached(name, arg, run) ==
    /\ StoreHandle(run.h)
    /\ Records(name, arg, run.ret, run.calls, UNMODIFIED)
    /\ foc' = NoFoc
    /\ native' = <<>>
    /\ UNCHANGED memvars
    /\ ctxs' = ctxs

\* File::open on a handle that went through a backend open function (or
\* through none)
backend_open ==
    /\ alive /\ n_close < MaxClose
    /\ IF Attached
       THEN \E v \in View(ctxs[cb_userdata]) :
              \E n \in OpenNatives(v) :
                LET o == open_cb_of(v, n)
                    cl == close_cb_of(o.ctx, n)
                    run == File_open(Handle, o.out, cl.out)
                    after == IF run.ran_close THEN cl.ctx
                             ELSE IF run.ran_open THEN o.ctx
                             ELSE v
                IN  /\ StoreHandle(run.h)
                    /\ Records("open", nullptr, run.ret, run.calls,
                               UNMODIFIED)
                    /\ foc' = NoFoc
                    /\ native' = (IF run.ran_open THEN o.native ELSE <<>>)
                                 \o (IF run.ran_close THEN cl.native
                                     ELSE <<>>)
                    /\ UNCHANGED memvars
                    /\ ctxs' = [ctxs EXCEPT ![cb_userdata] = Merge(@, after)]
       ELSE detached("open", nullptr,
                     File_open(Handle, Opaque(OK), Opaque(OK)))

\* File::close on such a handle
backend_close ==
    /\ alive /\ n_close < MaxClose
    /\ IF Attached
       THEN \E v \in View(ctxs[cb_userdata]) :
              \E n \in CloseNatives(v) :
                LET cl == close_cb_of(v, n)
                    run == File_close(Handle, cl.out)
                IN  /\ StoreHandle(run.h)
                    /\ Records("close", nullptr, run.ret, run.calls,
                               UNMODIFIED)
                    /\ foc' = NoFoc
                    /\ native' = IF run.ran_close THEN cl.native ELSE <<>>
                    /\ UNCHANGED memvars
                    /\ ctxs' = [ctxs EXCEPT ![cb_userdata] =
                                  Merge(@, IF run.ran_close THEN cl.ctx
                                           ELSE v)]
       ELSE detached("close", nullptr, File_close(Handle, Opaque(OK)))

\* File::~File on such a handle
backend_destroy ==
    /\ alive
    /\ IF dtor_closes(state) /\ Attached
       THEN \E v \in View(ctxs[cb_userdata]) :
              \E n \in CloseNatives(v) :
                LET cl == close_cb_of(v, n)
                    run == File_close(Handle, cl.out)
                IN  /\ StoreHandle(run.h)
                    /\ calls' = run.calls
                    /\ n_close' = n_close + CountClose(run.calls)
                    /\ native' = IF run.ran_close THEN cl.native ELSE <<>>
                    /\ UNCHANGED memvars
                    /\ ctxs' = [ctxs EXCEPT ![cb_userdata] =
                                   Merge(@, IF run.ran_close THEN cl.ctx
                                            ELSE v)]
       ELSE /\ StoreHandle(IF dtor_closes(state)
                           THEN File_close(Handle, Opaque(OK)).h
                           ELSE Handle)
            /\ calls' = <<>>
            /\ native' = <<>>
            /\ UNCHANGED <<n_close, ctxs>>
            /\ UNCHANGED memvars
    /\ alive' = FALSE
    /\ op' = [name |-> "~File", arg |-> nullptr]
    /\ new_offset' = UNMODIFIED
    /\ foc' = NoFoc
    /\ UNCHANGED <<ret, lifetime>>

\* File::read on such a handle, bytes_read not being null
backend_read ==
    /\ alive
    /\ IF Attached
       THEN \E n \in IoNatives(ctxs[cb_userdata]) :
              LET rd == read_cb_of(ctxs[cb_userdata], n)
                  run == File_readwrite(Handle, "read", read_cb, 1, rd.out)
              IN  /\ StoreHandle(run.h)
                  /\ Records("read", 1, run.ret, run.calls, UNMODIFIED)
                  /\ foc' = NoFoc
                  /\ native' = IF run.ran THEN rd.native ELSE <<>>
                  /\ UNCHANGED memvars
                  /\ ctxs' = ctxs
       ELSE detached("read", 1,
                     File_readwrite(Handle, "read", read_cb, 1, Opaque(OK)))

\* File::write on such a handle, bytes_written not being null
backend_write ==
    /\ alive
    /\ IF Attached
       THEN \E n \in IoNatives(ctxs[cb_userdata]) :
              LET wr == write_cb_of(ctxs[cb_userdata], n)
                  run == File_readwrite(Handle, "write", write_cb, 1, wr.out)
              IN  /\ StoreHandle(run.h)
                  /\ Records("write", 1, run.ret, run.calls, UNMODIFIED)
                  /\ foc' = NoFoc
                  /\ native' = IF run.ran THEN wr.native ELSE <<>>
                  /\ UNCHANGED memvars
                  /\ ctxs' = ctxs
       ELSE detached("write", 1,
                     File_readwrite(Handle, "write", write_cb, 1,
                                    Opaque(OK)))

\* a handle opened through the backend open functions, then read, written,
\* reopened, closed and destroyed
NextBackend ==
    \/ \E a \in Allocs, fd \in Resources, owned \in BOOLEAN :
          file_open_fd(a, fd, owned)
    \/ \E a \in Allocs, mode \in FileOpenModes :
          file_open_fd_filename(a, mode)
    \/ \E a \in Allocs, fp \in Resources \ {INVALID}, owned \in BOOLEAN :
          file_open_FILE(a, fp, owned)
    \/ \E a \in Allocs, mode \in FileOpenModes :
          file_open_FILE_filename(a, mode)
    \/ \E a \in Allocs, handle \in Resources, owned \in BOOLEAN,
          append \in BOOLEAN :
          file_open_HANDLE(a, handle, owned, append)
    \/ \E a \in Allocs, mode \in FileOpenModes :
          file_open_HANDLE_filename(a, mode)
    \/ backend_open
    \/ backend_close
    \/ backend_read
    \/ backend_write
    \/ backend_destroy

SpecBackend == Init /\ [][NextBackend]_vars

(* ====================================================================== *)
(* The memory backend (file/memory.cpp)                                   *)
(* ====================================================================== *)

\* int64_t and uint64_t scaled to OffBits bits; size_t has as many bits (an
\* LP64 build) or fewer (an ILP32 build)
OffBits == 3
SizeBits == {OffBits - 1, OffBits}
INT64_MIN == -(2 ^ (OffBits - 1))
INT64_MAX == 2 ^ (OffBits - 1) - 1
UINT64_MAX == 2 ^ OffBits - 1
SIZE_MAX(bits) == 2 ^ bits - 1

\* static_cast<uint64_t>(x) and the conversion of x to size_t
to_uint64(x) == x % (2 ^ OffBits)
to_size_t(bits, x) == x % (2 ^ bits)

\* whence values, 3 being none of the three
SEEK_SET == 0
SEEK_CUR == 1
SEEK_END == 2
Whences == 0..3

\* errno after a failed realloc
ENOMEM == 12

\* the largest block realloc can deliver, and the values of a byte
MaxBuf == 2
Bytes == 0..1

\* the byte strings of at most n bytes
Strings(n) == UNION {[1..k -> Bytes] : k \in 0..n}

Min(a, b) == IF a < b THEN a ELSE b

\* the bytes of s at the indices (counted from 0) first .. first + count - 1
Slice(s, first, count) == [k \in 1..count |-> s[first + k]]

\* MemoryFileCtx as calloc leaves it; bits is the width of size_t in the build
create_memory_ctx(bits) ==
    [kind |-> "memory", data |-> nullptr, size |-> 0, pos |-> 0,
     fixed_size |-> FALSE, data_ptr |-> FALSE, size_ptr |-> FALSE,
     bits |-> bits, frees |-> 0]

\* a block of memory: live until it is freed
Block(bytes) == [live |-> TRUE, bytes |-> bytes]
Freed == [live |-> FALSE, bytes |-> <<>>]

\* the addresses malloc and realloc return
Addrs == {1, 2}

\* realloc(ctx->data, n) on the block hp: it fails and leaves the block, or
\* delivers a block at some address holding the old bytes up to n and
\* anything above them; for n = 0 it may also free the block and return null;
\* on a block that was freed before, the bytes it delivers are anything
realloc(c, hp, n) ==
    LET kept == IF hp.live THEN Min(Len(hp.bytes), n) ELSE 0
    IN  {[ptr |-> nullptr, block |-> hp, errno |-> ENOMEM]}
        \cup (IF n = 0 /\ c.data # nullptr
              THEN {[ptr |-> nullptr, block |-> Freed, errno |-> e] :
                       e \in {0, ENOMEM}}
              ELSE {})
        \cup (IF n <= MaxBuf
              THEN {[ptr |-> a,
                     block |-> Block([k \in 1..n |->
                                        IF k <= kept THEN hp.bytes[k]
                                        ELSE junk[k]]),
                     errno |-> 0] :
                       a \in Addrs, junk \in [(kept + 1)..n -> Bytes]}
              ELSE {})

\* memset(block + first, v, count) and memcpy(block + first, src, count) on
\* the bytes of a block
memset(bytes, first, v, count) ==
    [k \in 1..Len(bytes) |->
        IF first < k /\ k <= first + count THEN v ELSE bytes[k]]

memcpy(bytes, first, src, count) ==
    [k \in 1..Len(bytes) |->
        IF first < k /\ k <= first + count THEN src[k - first] ELSE bytes[k]]

\* the byte indices first .. first + count - 1
Range(first, count) == {first + k : k \in 0..(count - 1)}

\* what a memory callback did: context, block and caller's slots after it,
\* what it did to the handle, the count and bytes it handed back, and the
\* byte indices it touched in a buffer of cap bytes
MemDid(c, hp, cl, out, n, bytes, acc, cap) ==
    [ctx |-> c, heap |-> hp, caller |-> cl, out |-> out, n |-> n,
     bytes |-> bytes, acc |-> acc, cap |-> cap]

\* variant of write_back: only the pointer is written back
write_back_mut(c, cl) ==
    [buf |-> IF c.data_ptr THEN c.data ELSE cl.buf, size |-> cl.size]

\* "if (ctx->data_ptr) *ctx->data_ptr = ctx->data; if (ctx->size_ptr) ..."
write_back(c, cl) ==
    [buf |-> IF c.data_ptr THEN c.data ELSE cl.buf,
     size |-> IF c.size_ptr THEN c.size ELSE cl.size]

\* the bytes of a block after f was applied to them; a freed block stays
\* what it is
Poke(hp, bytes) == IF hp.live THEN Block(bytes) ELSE hp

\* variant of memory_read_cb: the last byte of the buffer is never read
memory_read_cb_mut(c, hp, cl, size, seen) ==
    LET to_read == IF c.pos + 1 < c.size THEN Min(c.size - c.pos - 1, size)
                   ELSE 0
    IN  MemDid([c EXCEPT !.pos = c.pos + to_read], hp, cl, Opaque(OK),
               to_read,
               IF hp.live THEN Slice(hp.bytes, c.pos, to_read)
               ELSE Slice(seen, 0, to_read),
               Range(c.pos, to_read), c.size)

\* memory_read_cb(file, userdata, buf, size, bytes_read); seen is what a read
\* of freed memory finds
memory_read_cb(c, hp, cl, size, seen) ==
    LET to_read == IF c.pos < c.size THEN Min(c.size - c.pos, size) ELSE 0
    IN  MemDid([c EXCEPT !.pos = c.pos + to_read], hp, cl, Opaque(OK),
               to_read,
               IF hp.live THEN Slice(hp.bytes, c.pos, to_read)
               ELSE Slice(seen, 0, to_read),
               Range(c.pos, to_read), c.size)

\* variant of memory_write_cb: on a fixed buffer a write that would overflow
\* size_t is clamped like any other write past the end
memory_write_cb_ovf(c, hp, cl, buf, size, ra) ==
    IF c.pos > SIZE_MAX(c.bits) - size /\ ~c.fixed_size
    THEN MemDid(c, hp, cl, Outcome(FAILED, TRUE, ERR_INVALID_ARGUMENT),
                UNMODIFIED, <<>>, {}, c.size)
    ELSE LET desired_size == c.pos + size
             grow == desired_size > c.size /\ ~c.fixed_size
             to_write == IF desired_size > c.size /\ c.fixed_size
                         THEN (IF c.pos <= c.size THEN c.size - c.pos ELSE 0)
                         ELSE size
         IN  IF grow /\ ra.ptr = nullptr
             THEN MemDid(c, ra.block, cl, Outcome(FAILED, TRUE, -ra.errno),
                         UNMODIFIED, <<>>, {}, c.size)
             ELSE LET c1 == IF grow
                            THEN [c EXCEPT !.data = ra.ptr,
                                           !.size = desired_size]
                            ELSE c
                      hp1 == IF grow
                             THEN Block(memset(ra.block.bytes, c.size, 0,
                                               desired_size - c.size))
                             ELSE hp
                  IN  MemDid([c1 EXCEPT !.pos = c.pos + to_write],
                             Poke(hp1, memcpy(hp1.bytes, c.pos, buf,
                                              to_write)),
                             IF grow THEN write_back(c1, cl) ELSE cl,
                             Opaque(OK), to_write, <<>>,
                             Range(c.size, IF grow THEN desired_size - c.size
                                           ELSE 0)
                                \cup Range(c.pos, to_write),
                             c1.size)

\* variant of memory_write_cb: a fixed buffer is written up to its last byte
\* but one
memory_write_cb_clamp(c, hp, cl, buf, size, ra) ==
    IF c.pos > SIZE_MAX(c.bits) - size
    THEN MemDid(c, hp, cl, Outcome(FAILED, TRUE, ERR_INVALID_ARGUMENT),
                UNMODIFIED, <<>>, {}, c.size)
    ELSE LET desired_size == c.pos + size
             grow == desired_size > c.size /\ ~c.fixed_size
             to_write == IF desired_size > c.size /\ c.fixed_size
                         THEN (IF c.pos < c.size THEN c.size - c.pos - 1
                               ELSE 0)
                         ELSE size
         IN  IF grow /\ ra.ptr = nullptr
             THEN MemDid(c, ra.block, cl, Outcome(FAILED, TRUE, -ra.errno),
                         UNMODIFIED, <<>>, {}, c.size)
             ELSE LET c1 == IF grow
                            THEN [c EXCEPT !.data = ra.ptr,
                                           !.size = desired_size]
                            ELSE c
                      hp1 == IF grow
                             THEN Block(memset(ra.block.bytes, c.size, 0,
                                               desired_size - c.size))
                             ELSE hp
                  IN  MemDid([c1 EXCEPT !.pos = c.pos + to_write],
                             Poke(hp1, memcpy(hp1.bytes, c.pos, buf,
                                              to_write)),
                             IF grow THEN write_back(c1, cl) ELSE cl,
                             Opaque(OK), to_write, <<>>,
                             Range(c.size, IF grow THEN desired_size - c.size
                                           ELSE 0)
                                \cup Range(c.pos, to_write),
                             c1.size)

\* variant of memory_write_cb: the new space is not zero-initialised
memory_write_cb_mut(c, hp, cl, buf, size, ra) ==
    IF c.pos > SIZE_MAX(c.bits) - size
    THEN MemDid(c, hp, cl, Outcome(FAILED, TRUE, ERR_INVALID_ARGUMENT),
                UNMODIFIED, <<>>, {}, c.size)
    ELSE LET desired_size == c.pos + size
             grow == desired_size > c.size /\ ~c.fixed_size
             to_write == IF desired_size > c.size /\ c.fixed_size
                         THEN (IF c.pos <= c.size THEN c.size - c.pos ELSE 0)
                         ELSE size
         IN  IF grow /\ ra.ptr = nullptr
             THEN MemDid(c, ra.block, cl, Outcome(FAILED, TRUE, -ra.errno),
                         UNMODIFIED, <<>>, {}, c.size)
             ELSE LET c1 == IF grow
                            THEN [c EXCEPT !.data = ra.ptr,
                                           !.size = desired_size]
                            ELSE c
                      hp1 == IF grow THEN ra.block ELSE hp
                  IN  MemDid([c1 EXCEPT !.pos = c.pos + to_write],
                             Poke(hp1, memcpy(hp1.bytes, c.pos, buf,
                                              to_write)),
                             IF grow THEN write_back(c1, cl) ELSE cl,
                             Opaque(OK), to_write, <<>>,
                             Range(c.pos, to_write), c1.size)

\* memory_write_cb(file, userdata, buf, size, bytes_written); ra is what
\* realloc does when it is called
memory_write_cb(c, hp, cl, buf, size, ra) ==
    IF c.pos > SIZE_MAX(c.bits) - size
    THEN MemDid(c, hp, cl, Outcome(FAILED, TRUE, ERR_INVALID_ARGUMENT),
                UNMODIFIED, <<>>, {}, c.size)
    ELSE LET desired_size == c.pos + size
             grow == desired_size > c.size /\ ~c.fixed_size
             to_write == IF desired_size > c.size /\ c.fixed_size
                         THEN (IF c.pos <= c.size THEN c.size - c.pos ELSE 0)
                         ELSE size
         IN  IF grow /\ ra.ptr = nullptr
             THEN MemDid(c, ra.block, cl, Outcome(FAILED, TRUE, -ra.errno),
                         UNMODIFIED, <<>>, {}, c.size)
             ELSE LET c1 == IF grow
                            THEN [c EXCEPT !.data = ra.ptr,
                                           !.size = desired_size]
                            ELSE c
                      hp1 == IF grow
                             THEN Block(memset(ra.block.bytes, c.size, 0,
                                               desired_size - c.size))
                             ELSE hp
                  IN  MemDid([c1 EXCEPT !.pos = c.pos + to_write],
                             Poke(hp1, memcpy(hp1.bytes, c.pos, buf,
                                              to_write)),
                             IF grow THEN write_back(c1, cl) ELSE cl,
                             Opaque(OK), to_write, <<>>,
                             Range(c.size, IF grow THEN desired_size - c.size
                                           ELSE 0)
                                \cup Range(c.pos, to_write),
                             c1.size)

\* variant of memory_seek_cb: the new position is clamped to the buffer size
memory_seek_cb_mut(c, hp, cl, offset, whence) ==
    LET target == CASE whence = SEEK_SET -> offset
                    [] whence = SEEK_CUR -> c.pos + offset
                    [] whence = SEEK_END -> c.size + offset
                    [] OTHER -> -1
    IN  IF target < 0 \/ target > SIZE_MAX(c.bits)
        THEN MemDid(c, hp, cl, Outcome(FAILED, TRUE, ERR_INVALID_ARGUMENT),
                    UNMODIFIED, <<>>, {}, c.size)
        ELSE MemDid([c EXCEPT !.pos = Min(target, c.size)], hp, cl,
                    Opaque(OK), Min(target, c.size), <<>>, {}, c.size)

\* memory_seek_cb(file, userdata, offset, whence, new_offset); the count it
\* hands back is *new_offset. "-offset" overflows for INT64_MIN and wraps to
\* INT64_MIN, whose conversion to an unsigned type is the magnitude again
memory_seek_cb(c, hp, cl, offset, whence) ==
    LET invalid ==
            CASE whence = SEEK_SET ->
                    offset < 0 \/ to_uint64(offset) > SIZE_MAX(c.bits)
              [] whence = SEEK_CUR ->
                    \/ offset < 0 /\ to_uint64(-offset) > c.pos
                    \/ offset > 0
                          /\ to_uint64(offset) > SIZE_MAX(c.bits) - c.pos
              [] whence = SEEK_END ->
                    \/ offset < 0 /\ to_size_t(c.bits, -offset) > c.size
                    \/ offset > 0
                          /\ to_uint64(offset) > SIZE_MAX(c.bits) - c.size
              [] OTHER -> TRUE
        pos == CASE whence = SEEK_SET -> to_size_t(c.bits, offset)
                 [] whence = SEEK_CUR -> to_size_t(c.bits, c.pos + offset)
                 [] whence = SEEK_END -> to_size_t(c.bits, c.size + offset)
                 [] OTHER -> c.pos
    IN  IF invalid
        THEN MemDid(c, hp, cl, Outcome(FAILED, TRUE, ERR_INVALID_ARGUMENT),
                    UNMODIFIED, <<>>, {}, c.size)
        ELSE MemDid([c EXCEPT !.pos = pos], hp, cl, Opaque(OK), pos, <<>>,
                    {}, c.size)

\* variant of memory_truncate_cb: a position beyond the new size is moved to
\* the new size
memory_truncate_cb_mut(c, hp, cl, size, ra) ==
    IF c.fixed_size
    THEN MemDid(c, hp, cl, Outcome(UNSUPPORTED, TRUE, ERR_UNSUPPORTED),
                UNMODIFIED, <<>>, {}, c.size)
    ELSE IF ra.ptr = nullptr
    THEN MemDid(c, ra.block, cl, Outcome(FAILED, TRUE, -ra.errno),
                UNMODIFIED, <<>>, {}, c.size)
    ELSE LET n == to_size_t(c.bits, size)
             count == IF size > c.size THEN to_size_t(c.bits, size - c.size)
                      ELSE 0
             c1 == [c EXCEPT !.data = ra.ptr, !.size = n,
                             !.pos = Min(c.pos, n)]
         IN  MemDid(c1, Block(memset(ra.block.bytes, c.size, 0, count)),
                    write_back(c1, cl), Opaque(OK), UNMODIFIED, <<>>,
                    Range(c.size, count), n)

\* memory_truncate_cb(file, userdata, size); size is a uint64_t that realloc,
\* memset and ctx->size take as a size_t
memory_truncate_cb(c, hp, cl, size, ra) ==
    IF c.fixed_size
    THEN MemDid(c, hp, cl, Outcome(UNSUPPORTED, TRUE, ERR_UNSUPPORTED),
                UNMODIFIED, <<>>, {}, c.size)
    ELSE IF ra.ptr = nullptr
    THEN MemDid(c, ra.block, cl, Outcome(FAILED, TRUE, -ra.errno),
                UNMODIFIED, <<>>, {}, c.size)
    ELSE LET n == to_size_t(c.bits, size)
             count == IF size > c.size THEN to_size_t(c.bits, size - c.size)
                      ELSE 0
             c1 == [c EXCEPT !.data = ra.ptr, !.size = n]
         IN  MemDid(c1, Block(memset(ra.block.bytes, c.size, 0, count)),
                    write_back(c1, cl), Opaque(OK), UNMODIFIED, <<>>,
                    Range(c.size, count), n)

\* memory_close_cb: free_ctx(ctx)
memory_close_cb(c) == free_ctx(c)

\* File::seek and File::truncate (kind "seek" or "truncate", cb the slot's
\* value), oc being what the callback does
File_seektruncate(h, kind, cb, oc) ==
    IF ENSURE_STATE(h.state, {ST_OPENED})
    THEN LET ran == cb # nullptr
             r == IF ran THEN oc.ret ELSE UNSUPPORTED
             h1 == IF ~ran THEN set_error(h, ERR_UNSUPPORTED)
                   ELSE IF oc.set THEN set_error(h, oc.err)
                   ELSE h
         IN  [h |-> [h1 EXCEPT !.state = op_state(h.state, r)], ret |-> r,
              calls |-> IF ran THEN <<Call(kind, cb, h.cb_userdata, r)>>
                        ELSE <<>>,
              ran_open |-> FALSE, ran_close |-> FALSE, ran |-> ran]
    ELSE Rejected(h) @@ [ran |-> FALSE]

\* the callbacks and userdata open_ctx passes: no open callback
MemoryArgs == <<nullptr, 1, 1, 1, 1, 1, 1>>

\* what io holds after a memory operation: its arguments, and the count and
\* the bytes the callback d handed back (nothing when it did not run)
MemIo(args, ran, d) ==
    [args |-> args, n |-> IF ran THEN d.n ELSE UNMODIFIED,
     bytes |-> IF ran THEN d.bytes ELSE <<>>]

\* The round trip a caller makes through a dynamic buffer, as far as the
\* calls made on the handle so far are its calls and returned OK:
\*   0  nothing was called
\*   1  file_open_memory_dynamic on an empty buffer
\*   2  then write(s)
\*   3  then seek(0, SEEK_SET)
\*   4  then read of Len(s) bytes, whatever it returned
\*  -1  anything else
RoundTripNext(rt, name, args, r) ==
    CASE rt.step = 0 /\ name = "file_open_memory_dynamic" /\ args = <<0>>
            /\ r = OK -> [step |-> 1, s |-> <<>>]
      [] rt.step = 1 /\ name = "write" /\ r = OK ->
            [step |-> 2, s |-> args[1]]
      [] rt.step = 2 /\ name = "seek" /\ args = <<0, SEEK_SET>> /\ r = OK ->
            [step |-> 3, s |-> rt.s]
      [] rt.step = 3 /\ name = "read" /\ args = <<Len(rt.s)>> ->
            [step |-> 4, s |-> rt.s]
      [] OTHER -> [step |-> -1, s |-> <<>>]

\* io after an operation that made no memory callback hand back anything
NoCallback == [args |-> <<>>, n |-> UNMODIFIED, bytes |-> <<>>]

\* file_open_memory_static / file_open_memory_dynamic from create_ctx on:
\* alloc is what calloc yields, c the context as the function fills it in
open_memory(name, alloc, c, hp, cl) ==
    IF alloc = "nullptr"
    THEN /\ StoreHandle(set_error(Handle, ERR_INTERNAL_ERROR))
         /\ Records(name, nullptr, FATAL, <<>>, UNMODIFIED)
         /\ foc' = NoFoc
         /\ native' = <<>>
         /\ ctxs' = ctxs
         /\ io' = NoCallback
         /\ round_trip' = RoundTripNext(round_trip, name, <<c.size>>, FATAL)
         /\ access' = NoAccess
         /\ UNCHANGED <<mctx, heap, caller, xfer>>
    ELSE LET run == file_open_callbacks_run(Handle, MemoryArgs, Opaque(OK),
                                            Opaque(OK))
         IN  /\ StoreHandle(run.h)
             /\ Records(name, nullptr, run.ret, run.calls, UNMODIFIED)
             /\ foc' = [args |-> MemoryArgs, ret2 |-> run.ret2]
             /\ native' = <<>>
             /\ ctxs' = ctxs
             /\ mctx' = IF run.ran_close THEN memory_close_cb(c) ELSE c
             /\ heap' = hp
             /\ caller' = cl
             /\ io' = NoCallback
             /\ round_trip' = RoundTripNext(round_trip, name, <<c.size>>,
                                            run.ret)
             /\ access' = NoAccess
             /\ xfer' = xfer

\* file_open_memory_static(file, buf, size), buf holding the bytes initial
file_open_memory_static(alloc, bits, initial) ==
    /\ alive
    /\ mctx = NoMem
    /\ open_memory("file_open_memory_static", alloc,
                   [create_memory_ctx(bits) EXCEPT
                       !.data = IF initial = <<>> THEN nullptr ELSE 1,
                       !.size = Len(initial),
                       !.fixed_size = TRUE],
                   Block(initial), NoCaller)

\* file_open_memory_dynamic(file, buf_ptr, size_ptr), *buf_ptr holding the
\* bytes initial (a null pointer when there are none)
file_open_memory_dynamic(alloc, bits, initial) ==
    /\ alive
    /\ mctx = NoMem
    /\ LET cl == [buf |-> IF initial = <<>> THEN nullptr ELSE 1,
                  size |-> Len(initial)]
       IN  open_memory("file_open_memory_dynamic", alloc,
                       [create_memory_ctx(bits) EXCEPT
                           !.data = cl.buf, !.size = cl.size,
                           !.data_ptr = TRUE, !.size_ptr = TRUE],
                       Block(initial), cl)

\* the call of realloc with outcome ra
Realloced(ra) ==
    <<Native("realloc", IF ra.ptr = nullptr THEN "fail" ELSE "ok", ra.errno)>>

\* a File operation whose memory callback did d and made the native calls
\* nat when it ran
memory_op(name, args, run, d, out, nat) ==
    /\ StoreHandle(run.h)
    /\ Records(name, 1, run.ret, run.calls, out)
    /\ foc' = NoFoc
    /\ native' = IF run.ran THEN nat ELSE <<>>
    /\ ctxs' = ctxs
    /\ mctx' = IF run.ran THEN d.ctx ELSE mctx
    /\ heap' = IF run.ran THEN d.heap ELSE heap
    /\ caller' = IF run.ran THEN d.caller ELSE caller
    /\ io' = MemIo(IF name = "seek" THEN <<>> ELSE args, run.ran, d)
    /\ round_trip' = RoundTripNext(round_trip, name, args, run.ret)
    /\ access' = IF run.ran
                 THEN [acc |-> d.acc, cap |-> d.cap, live |-> d.heap.live]
                 ELSE NoAccess
    /\ xfer' = xfer

\* File::read(buf, size, bytes_read) on a handle of the memory backend
memory_read(size) ==
    /\ alive
    /\ Attached
    /\ \E seen \in (IF heap.live THEN {<<>>} ELSE [1..mctx.size -> Bytes]) :
         LET d == memory_read_cb(mctx, heap, caller, size, seen)
         IN  memory_op("read", <<size>>,
                       File_readwrite(Handle, "read", read_cb, 1, d.out),
                       d, UNMODIFIED, <<>>)

\* whether memory_write_cb calls realloc for size bytes
write_grows(c, size) ==
    /\ c.pos <= SIZE_MAX(c.bits) - size
    /\ c.pos + size > c.size
    /\ ~c.fixed_size

\* realloc when it is not called
NoRealloc == [ptr |-> nullptr, block |-> Freed, errno |-> 0]

\* File::write(buf, size, bytes_written), buf holding the size bytes s
memory_write(s) ==
    /\ alive
    /\ Attached
    /\ \E ra \in (IF write_grows(mctx, Len(s))
                  THEN realloc(mctx, heap, mctx.pos + Len(s))
                  ELSE {NoRealloc}) :
         LET d == memory_write_cb(mctx, heap, caller, s, Len(s), ra)
         IN  memory_op("write", <<s>>,
                       File_readwrite(Handle, "write", write_cb, 1, d.out),
                       d, UNMODIFIED,
                       IF write_grows(mctx, Len(s)) THEN Realloced(ra)
                       ELSE <<>>)

\* File::seek(offset, whence, new_offset), new_offset not being null
memory_seek(offset, whence) ==
    /\ alive
    /\ Attached
    /\ LET d == memory_seek_cb(mctx, heap, caller, offset, whence)
           run == File_seektruncate(Handle, "seek", seek_cb, d.out)
       IN  memory_op("seek", <<offset, whence>>, run, d,
                     IF run.ret = OK THEN d.n ELSE UNMODIFIED, <<>>)

\* File::truncate(size)
memory_truncate(size) ==
    /\ alive
    /\ Attached
    /\ \E ra \in (IF mctx.fixed_size THEN {NoRealloc}
                  ELSE realloc(mctx, heap, to_size_t(mctx.bits, size))) :
         LET d == memory_truncate_cb(mctx, heap, caller, size, ra)
         IN  memory_op("truncate", <<size>>,
                       File_seektruncate(Handle, "truncate", truncate_cb,
                                         d.out),
                       d, UNMODIFIED,
                       IF mctx.fixed_size THEN <<>> ELSE Realloced(ra))

\* File::close on a handle of the memory backend
memory_close ==
    /\ alive
    /\ Attached
    /\ n_close < MaxClose
    /\ LET run == File_close(Handle, Opaque(OK))
       IN  /\ StoreHandle(run.h)
           /\ Records("close", nullptr, run.ret, run.calls, UNMODIFIED)
           /\ foc' = NoFoc
           /\ native' = <<>>
           /\ ctxs' = ctxs
           /\ mctx' = IF run.ran_close THEN memory_close_cb(mctx) ELSE mctx
           /\ io' = NoCallback
           /\ round_trip' = RoundTripNext(round_trip, "close", <<>>, run.ret)
           /\ access' = NoAccess
           /\ UNCHANGED <<heap, caller, xfer>>

\* File::~File on a handle of the memory backend (or on one that never got
\* a context)
memory_destroy ==
    /\ alive
    /\ LET run == IF dtor_closes(state) THEN File_close(Handle, Opaque(OK))
                  ELSE [h |-> Handle, calls |-> <<>>, ran_close |-> FALSE]
       IN  /\ StoreHandle(run.h)
           /\ calls' = run.calls
           /\ n_close' = n_close + CountClose(run.calls)
           /\ mctx' = IF run.ran_close THEN memory_close_cb(mctx) ELSE mctx
    /\ alive' = FALSE
    /\ op' = [name |-> "~File", arg |-> nullptr]
    /\ new_offset' = UNMODIFIED
    /\ foc' = NoFoc
    /\ native' = <<>>
    /\ io' = NoCallback
    /\ round_trip' = RoundTripNext(round_trip, "~File", <<>>, OK)
    /\ access' = NoAccess
    /\ UNCHANGED <<ret, lifetime, ctxs, heap, caller, xfer>>

\* the sizes a caller can pass as a size_t in a build
Sizes(bits) == 0..Min(MaxBuf, SIZE_MAX(bits))

\* the width of size_t in the build the handle was opened in
Build == IF mctx = NoMem THEN OffBits ELSE mctx.bits

\* a handle opened on a memory buffer, then read, written, positioned and
\* resized while it is OPENED, closed and destroyed
NextMemory ==
    \/ \E a \in Allocs, bits \in SizeBits :
          \E initial \in Strings(Min(MaxBuf, SIZE_MAX(bits))) :
             file_open_memory_static(a, bits, initial)
    \/ \E a \in Allocs, bits \in SizeBits :
          \E initial \in Strings(Min(MaxBuf, SIZE_MAX(bits))) :
             file_open_memory_dynamic(a, bits, initial)
    \/ state = ST_OPENED /\ \E size \in Sizes(Build) : memory_read(size)
    \/ state = ST_OPENED
          /\ \E s \in Strings(Min(MaxBuf, SIZE_MAX(Build))) : memory_write(s)
    \/ state = ST_OPENED
          /\ \E offset \in INT64_MIN..INT64_MAX, whence \in Whences :
                memory_seek(offset, whence)
    \/ state = ST_OPENED /\ \E size \in 0..UINT64_MAX : memory_truncate(size)
    \/ memory_close
    \/ memory_destroy

SpecMemory == Init /\ [][NextMemory]_vars

(* ====================================================================== *)
(* Seeking and truncating through the backends (file/fd.cpp,             *)
(* file/posix.cpp, file/win32.cpp)                                       *)
(* ====================================================================== *)

\* offsets a caller seeks by
SeekOffsets == -1..1

\* where a native seek by offset from whence would put the file pointer of
\* c's resource, eof being the size of the file; negative when the native
\* call rejects its arguments
NativeTarget(c, offset, whence, eof) ==
    LET target == CASE whence = SEEK_SET -> offset
                    [] whence = SEEK_CUR -> c.fpos + offset
                    [] whence = SEEK_END -> eof + offset
                    [] OTHER -> -1
    IN  IF target < 0 THEN -1 ELSE target

\* what a seek or truncate callback did: as Did, with *new_offset
SeekDid(c, out, nat, n) ==
    [ctx |-> c, out |-> out, native |-> nat, n |-> n]

\* fd_seek_cb; n.seek is whether fn_lseek64 succeeds, n.eof the file's size
fd_seek_cb(c, offset, whence, n) ==
    IF n.seek = "fail"
    THEN SeekDid(c, Outcome(FAILED, TRUE, -n.errno),
                 <<Native("fn_lseek64", "fail", n.errno)>>, UNMODIFIED)
    ELSE LET new_pos == NativeTarget(c, offset, whence, n.eof)
         IN  SeekDid([c EXCEPT !.fpos = new_pos], Opaque(OK),
                     <<Native("fn_lseek64", "ok", 0)>>, new_pos)

\* variant of posix_seek_cb: a position that cannot be read back is FAILED
\* without restoring the old one
posix_seek_cb_mut(c, offset, whence, n) ==
    LET new_pos == NativeTarget(c, offset, whence, n.eof)
        told == <<Native("fn_ftello", n.tell1, n.errno)>>
        seeked == told \o <<Native("fn_fseeko", n.seek, n.errno)>>
        retold == seeked \o <<Native("fn_ftello", n.tell2, n.errno)>>
    IN  IF ~c.can_seek
        THEN SeekDid(c, Outcome(UNSUPPORTED, TRUE, ERR_UNSUPPORTED), <<>>,
                     UNMODIFIED)
        ELSE IF n.tell1 = "fail"
        THEN SeekDid(c, Outcome(FAILED, TRUE, -n.errno), told, UNMODIFIED)
        ELSE IF n.seek = "fail"
        THEN SeekDid(c, Outcome(FAILED, TRUE, -n.errno), seeked, UNMODIFIED)
        ELSE IF n.tell2 = "fail"
        THEN SeekDid([c EXCEPT !.fpos = new_pos],
                     Outcome(FAILED, TRUE, -n.errno), retold, UNMODIFIED)
        ELSE SeekDid([c EXCEPT !.fpos = new_pos], Opaque(OK), retold,
                     new_pos)

\* posix_seek_cb; n.tell1, n.seek, n.tell2 and n.restore are whether the
\* first fn_ftello, the fn_fseeko, the second fn_ftello and the fn_fseeko back
\* to old_pos succeed
posix_seek_cb(c, offset, whence, n) ==
    LET new_pos == NativeTarget(c, offset, whence, n.eof)
        told == <<Native("fn_ftello", n.tell1, n.errno)>>
        seeked == told \o <<Native("fn_fseeko", n.seek, n.errno)>>
        retold == seeked \o <<Native("fn_ftello", n.tell2, n.errno)>>
        restored == retold \o <<Native("fn_fseeko", n.restore, n.errno)>>
    IN  IF ~c.can_seek
        THEN SeekDid(c, Outcome(UNSUPPORTED, TRUE, ERR_UNSUPPORTED), <<>>,
                     UNMODIFIED)
        ELSE IF n.tell1 = "fail"
        THEN SeekDid(c, Outcome(FAILED, TRUE, -n.errno), told, UNMODIFIED)
        ELSE IF n.seek = "fail"
        THEN SeekDid(c, Outcome(FAILED, TRUE, -n.errno), seeked, UNMODIFIED)
        ELSE IF n.tell2 = "fail"
        THEN IF n.restore = "ok"
             THEN SeekDid(c, Outcome(FAILED, TRUE, -n.errno), restored,
                          UNMODIFIED)
             ELSE SeekDid([c EXCEPT !.fpos = new_pos],
                          Outcome(FATAL, TRUE, -n.errno), restored,
                          UNMODIFIED)
        ELSE SeekDid([c EXCEPT !.fpos = new_pos], Opaque(OK), retold,
                     new_pos)

\* win32_seek_cb; n.seek is whether fn_SetFilePointerEx succeeds
win32_seek_cb(c, offset, whence, n) ==
    IF whence \notin {SEEK_CUR, SEEK_SET, SEEK_END}
    THEN SeekDid(c, Outcome(FAILED, TRUE, ERR_INVALID_ARGUMENT), <<>>,
                 UNMODIFIED)
    ELSE IF n.seek = "fail"
    THEN SeekDid(c, Outcome(FAILED, TRUE, -n.errno),
                 <<Native("fn_SetFilePointerEx", "fail", n.errno)>>,
                 UNMODIFIED)
    ELSE LET new_pos == NativeTarget(c, offset, whence, n.eof)
         IN  SeekDid([c EXCEPT !.fpos = new_pos], Opaque(OK),
                     <<Native("fn_SetFilePointerEx", "ok", 0)>>, new_pos)

\* fd_truncate_cb; n.trunc is whether fn_ftruncate64 succeeds
fd_truncate_cb(c, size, n) ==
    IF n.trunc = "fail"
    THEN SeekDid(c, Outcome(FAILED, TRUE, -n.errno),
                 <<Native("fn_ftruncate64", "fail", n.errno)>>, UNMODIFIED)
    ELSE SeekDid(c, Opaque(OK), <<Native("fn_ftruncate64", "ok", 0)>>,
                 UNMODIFIED)

\* posix_truncate_cb; n.fileno is whether fn_fileno yields a descriptor
posix_truncate_cb(c, size, n) ==
    LET fileno == <<Native("fn_fileno", n.fileno, n.errno)>>
    IN  IF n.fileno = "fail"
        THEN SeekDid(c, Outcome(UNSUPPORTED, TRUE, ERR_UNSUPPORTED), fileno,
                     UNMODIFIED)
        ELSE IF n.trunc = "fail"
        THEN SeekDid(c, Outcome(FAILED, TRUE, -n.errno),
                     fileno \o <<Native("fn_ftruncate64", "fail", n.errno)>>,
                     UNMODIFIED)
        ELSE SeekDid(c, Opaque(OK),
                     fileno \o <<Native("fn_ftruncate64", "ok", 0)>>,
                     UNMODIFIED)

\* the outcome of one fn_SetFilePointerEx made by win32_truncate_cb
OneSeek(rv, e) == [seek |-> rv, eof |-> 0, errno |-> e]

\* variant of win32_truncate_cb: a restore that fails leaves the result of
\* the truncation
win32_truncate_cb_mut(c, size, n) ==
    LET s1 == win32_seek_cb(c, 0, SEEK_CUR, OneSeek(n.cur, n.errno))
        current_pos == s1.n
        s2 == win32_seek_cb(s1.ctx, size, SEEK_SET, OneSeek(n.move, n.errno))
        seteof == <<Native("fn_SetEndOfFile", n.seteof, n.errno)>>
        s3 == win32_seek_cb(s2.ctx, current_pos, SEEK_SET,
                            OneSeek(n.back, n.errno))
        nat == s1.native \o s2.native \o seteof \o s3.native
        status == IF n.seteof = "fail" THEN FAILED ELSE OK
    IN  IF s1.out.ret # OK THEN s1
        ELSE IF s2.out.ret # OK
        THEN SeekDid(s2.ctx, s2.out, s1.native \o s2.native, UNMODIFIED)
        ELSE SeekDid(s3.ctx,
                     IF s3.out.set THEN Outcome(status, TRUE, s3.out.err)
                     ELSE IF n.seteof = "fail"
                     THEN Outcome(status, TRUE, -n.errno)
                     ELSE Opaque(status),
                     nat, UNMODIFIED)

\* win32_truncate_cb; n.cur, n.move and n.back are whether the three
\* win32_seek_cb calls' fn_SetFilePointerEx succeed and n.seteof whether
\* fn_SetEndOfFile does
win32_truncate_cb(c, size, n) ==
    LET s1 == win32_seek_cb(c, 0, SEEK_CUR, OneSeek(n.cur, n.errno))
        current_pos == s1.n
        s2 == win32_seek_cb(s1.ctx, size, SEEK_SET, OneSeek(n.move, n.errno))
        seteof == <<Native("fn_SetEndOfFile", n.seteof, n.errno)>>
        s3 == win32_seek_cb(s2.ctx, current_pos, SEEK_SET,
                            OneSeek(n.back, n.errno))
        nat == s1.native \o s2.native \o seteof \o s3.native
        status == IF s3.out.ret # OK THEN FATAL
               ELSE IF n.seteof = "fail" THEN FAILED
               ELSE OK
    IN  IF s1.out.ret # OK THEN s1
        ELSE IF s2.out.ret # OK
        THEN SeekDid(s2.ctx, s2.out, s1.native \o s2.native, UNMODIFIED)
        ELSE SeekDid(s3.ctx,
                     IF s3.out.set THEN Outcome(status, TRUE, s3.out.err)
                     ELSE IF n.seteof = "fail"
                     THEN Outcome(status, TRUE, -n.errno)
                     ELSE Opaque(status),
                     nat, UNMODIFIED)

\* the seek and truncate callbacks open_ctx registers
seek_cb_of(c, offset, whence, n) ==
    CASE c.kind = "fd" -> fd_seek_cb(c, offset, whence, n)
      [] c.kind = "posix" -> posix_seek_cb(c, offset, whence, n)
      [] c.kind = "win32" -> win32_seek_cb(c, offset, whence, n)

truncate_cb_of(c, size, n) ==
    CASE c.kind = "fd" -> fd_truncate_cb(c, size, n)
      [] c.kind = "posix" -> posix_truncate_cb(c, size, n)
      [] c.kind = "win32" -> win32_truncate_cb(c, size, n)

OkFail == {"ok", "fail"}

\* what the native calls of a seek may do: a seek to a negative position or
\* with an unknown whence fails, only the FILE backend tells and restores,
\* and a call that is not reached is listed as "ok"
SeekNatives(c, offset, whence) ==
    {n \in [tell1 : OkFail, seek : OkFail, tell2 : OkFail, restore : OkFail,
            eof : Offsets, errno : {HardError(c.kind)}] :
        /\ (NativeTarget(c, offset, whence, n.eof) < 0 => n.seek = "fail")
        /\ (whence # SEEK_END => n.eof = 0)
        /\ (c.kind # "posix" \/ ~c.can_seek =>
               n.tell1 = "ok" /\ n.tell2 = "ok" /\ n.restore = "ok")
        /\ (c.kind = "posix" /\ ~c.can_seek => n.seek = "ok" /\ n.eof = 0)
        /\ (n.tell1 = "fail" => n.seek = "ok" /\ n.eof = 0)
        /\ (n.seek = "fail" => n.tell2 = "ok" /\ n.eof = 0)
        /\ (n.tell2 = "ok" => n.restore = "ok")}

\* what the native calls of a truncate may do
TruncNatives(c) ==
    {n \in [cur : OkFail, move : OkFail, seteof : OkFail, back : OkFail,
            fileno : OkFail, trunc : OkFail, errno : {HardError(c.kind)}] :
        /\ (c.kind # "win32" =>
               n.cur = "ok" /\ n.move = "ok" /\ n.seteof = "ok"
                  /\ n.back = "ok")
        /\ (c.kind # "posix" => n.fileno = "ok")
        /\ (c.kind = "win32" \/ n.fileno = "fail" => n.trunc = "ok")
        /\ (n.cur = "fail" => n.move = "ok")
        /\ (n.cur = "fail" \/ n.move = "fail" =>
               n.seteof = "ok" /\ n.back = "ok")}

\* what the seek and truncate callbacks read in *ctx: its fields while it is
\* allocated, anything once it has been freed
SeekView(c) ==
    IF c.frees = 0 THEN {c}
    ELSE {[c EXCEPT !.can_seek = s, !.fpos = p] :
            s \in BOOLEAN, p \in Offsets}

\* File::seek(offset, whence, new_offset) on a handle that went through a
\* backend open function (or through none), new_offset not being null
backend_seek(offset, whence) ==
    /\ alive
    /\ IF Attached
       THEN \E v \in SeekView(ctxs[cb_userdata]) :
              \E n \in SeekNatives(v, offset, whence) :
                LET d == seek_cb_of(v, offset, whence, n)
                    run == File_seektruncate(Handle, "seek", seek_cb, d.out)
                IN  /\ d.ctx.fpos <= MaxOffset
                    /\ StoreHandle(run.h)
                    /\ Records("seek", 1, run.ret, run.calls,
                               IF run.ret = OK THEN d.n ELSE UNMODIFIED)
                    /\ foc' = NoFoc
                    /\ native' = IF run.ran THEN d.native ELSE <<>>
                    /\ UNCHANGED memvars
                    /\ ctxs' = [ctxs EXCEPT ![cb_userdata] =
                                  Merge(@, IF run.ran THEN d.ctx ELSE v)]
       ELSE detached("seek", 1,
                     File_seektruncate(Handle, "seek", seek_cb, Opaque(OK)))

\* File::truncate(size) on such a handle
backend_truncate(size) ==
    /\ alive
    /\ IF Attached
       THEN \E v \in SeekView(ctxs[cb_userdata]) :
              \E n \in TruncNatives(v) :
                LET d == truncate_cb_of(v, size, n)
                    run == File_seektruncate(Handle, "truncate", truncate_cb,
                                             d.out)
                IN  /\ StoreHandle(run.h)
                    /\ Records("truncate", size, run.ret, run.calls,
                               UNMODIFIED)
                    /\ foc' = NoFoc
                    /\ native' = IF run.ran THEN d.native ELSE <<>>
                    /\ UNCHANGED memvars
                    /\ ctxs' = [ctxs EXCEPT ![cb_userdata] =
                                  Merge(@, IF run.ran THEN d.ctx ELSE v)]
       ELSE detached("truncate", size,
                     File_seektruncate(Handle, "truncate", truncate_cb,
                                       Opaque(OK)))

\* byte strings of zeros up to length n
Zeros(n) == {[i \in 1..k |-> 0] : k \in 0..n}

\* a handle given once to the open function of a descriptor, a platform
\* handle or a memory buffer, then positioned and truncated while it is
\* OPENED, and destroyed; the caller owns what it passes and the memory
\* buffers hold zeros
NextSeek ==
    \/ mctx = NoMem /\ ctxs = <<>>
          /\ \E a \in Allocs, fd \in Resources : file_open_fd(a, fd, FALSE)
    \/ mctx = NoMem /\ ctxs = <<>>
          /\ \E a \in Allocs, handle \in Resources :
                file_open_HANDLE(a, handle, FALSE, FALSE)
    \/ mctx = NoMem /\ backend_open
    \/ mctx = NoMem /\ state = ST_OPENED
          /\ \E offset \in SeekOffsets, whence \in Whences :
                backend_seek(offset, whence)
    \/ mctx = NoMem /\ state = ST_OPENED
          /\ \E size \in Offsets : backend_truncate(size)
    \/ mctx = NoMem /\ backend_destroy
    \/ ctxs = <<>> /\ state = ST_NEW
          /\ \E a \in Allocs, bits \in SizeBits :
                \E initial \in Zeros(Min(MaxBuf, SIZE_MAX(bits))) :
                   file_open_memory_dynamic(a, bits, initial)
    \/ mctx # NoMem /\ state = ST_OPENED
          /\ \E offset \in SeekOffsets, whence \in Whences :
                memory_seek(offset, whence)
    \/ mctx # NoMem /\ state = ST_OPENED
          /\ \E size \in 0..UINT64_MAX : memory_truncate(size)
    \/ mctx # NoMem /\ memory_destroy

SpecSeek == Init /\ [][NextSeek]_vars

\* a handle given once to an open function of the FILE backend, then
\* positioned and truncated while it is OPENED, reopened and destroyed
NextStream ==
    \/ ctxs = <<>>
          /\ \E a \in Allocs, fp \in Streams, owned \in BOOLEAN :
                file_open_FILE(a, fp, owned)
    \/ ctxs = <<>>
          /\ \E a \in Allocs, mode \in FileOpenModes :
                file_open_FILE_filename(a, mode)
    \/ backend_open
    \/ state = ST_OPENED
          /\ \E offset \in SeekOffsets, whence \in Whences :
                backend_seek(offset, whence)
    \/ state = ST_OPENED /\ \E size \in Offsets : backend_truncate(size)
    \/ backend_destroy

SpecStream == Init /\ [][NextStream]_vars

(* ====================================================================== *)
(* The byte counts of reads and writes (file/fd.cpp, file/win32.cpp)      *)
(* ====================================================================== *)

\* the largest ssize_t of a build whose size_t has bits bits, and the largest
\* unsigned int, which is as wide as the narrow size_t
SSIZE_MAX(bits) == 2 ^ (bits - 1) - 1
UINT_MAX == 2 ^ (OffBits - 1) - 1

\* variant of fd_size: the size is passed on as it is
fd_size_mut(bits, size) == size

\* "if (size > SSIZE_MAX) size = SSIZE_MAX;" of fd_read_cb and fd_write_cb
fd_size(bits, size) ==
    IF size > SSIZE_MAX(bits) THEN SSIZE_MAX(bits) ELSE size

\* "if (size > UINT_MAX) size = UINT_MAX;" of win32_read_cb and
\* win32_write_cb, after the seek of an appending write
win32_size(bits, size) == IF size > UINT_MAX THEN UINT_MAX ELSE size

\* the byte count the read or write callback of context c hands to the
\* native call when asked for size bytes
size_of(c, bits, size) ==
    CASE c.kind = "fd" -> fd_size(bits, size)
      [] c.kind = "win32" -> win32_size(bits, size)

\* whether the native calls nat end with the read or the write itself
Transferred(nat) ==
    /\ nat # <<>>
    /\ nat[Len(nat)].fn # "fn_SetFilePointerEx"

\* File::read or File::write (name) of size bytes on a handle of the fd or
\* the win32 backend, in a build whose size_t has bits bits; cb is the slot
\* and d what the callback does; the native call transfers at most the count
\* it is given, and the callback reports what it transferred
sized(name, cb, d, bits, size) ==
    LET run == File_readwrite(Handle, name, cb, 1, d.out)
        called == run.ran /\ Transferred(d.native)
        passed == size_of(ctxs[cb_userdata], bits, size)
    IN  \E k \in 0..passed :
          /\ StoreHandle(run.h)
          /\ Records(name, 1, run.ret, run.calls, UNMODIFIED)
          /\ foc' = NoFoc
          /\ native' = IF run.ran THEN d.native ELSE <<>>
          /\ ctxs' = ctxs
          /\ xfer' = [bits |-> bits, size |-> size,
                      passed |-> IF called THEN passed ELSE -1,
                      n |-> IF called /\ d.out.ret = OK THEN k ELSE -1]
          /\ (~(called /\ d.out.ret = OK) => k = 0)
          /\ UNCHANGED <<mctx, heap, caller, io, round_trip, access>>

\* File::read(buf, size, bytes_read)
sized_read(bits, size) ==
    /\ alive
    /\ Attached
    /\ \E n \in IoNatives(ctxs[cb_userdata]) :
          sized("read", read_cb, read_cb_of(ctxs[cb_userdata], n), bits, size)

\* File::write(buf, size, bytes_written)
sized_write(bits, size) ==
    /\ alive
    /\ Attached
    /\ \E n \in IoNatives(ctxs[cb_userdata]) :
          sized("write", write_cb, write_cb_of(ctxs[cb_userdata], n), bits,
                size)

\* the builds a transfer can be made in: the one of the transfers before it
Builds == IF xfer = NoTransfer THEN SizeBits ELSE {xfer.bits}

\* a handle opened on a descriptor or a platform handle, then read and
\* written with every size a size_t of the build can hold, and destroyed
NextTransfer ==
    \/ ctxs = <<>>
          /\ \E a \in Allocs, fd \in Resources : file_open_fd(a, fd, FALSE)
    \/ ctxs = <<>>
          /\ \E a \in Allocs, handle \in Resources, append \in BOOLEAN :
                file_open_HANDLE(a, handle, FALSE, append)
    \/ state = ST_OPENED
          /\ \E bits \in Builds : \E size \in 0..SIZE_MAX(bits) :
                sized_read(bits, size)
    \/ state = ST_OPENED
          /\ \E bits \in Builds : \E size \in 0..SIZE_MAX(bits) :
                sized_write(bits, size)
    \/ backend_destroy

SpecTransfer == Init /\ [][NextTransfer]_vars

(* ====================================================================== *)
(* The error code of a handle (file.cpp: set_error, set_error_v, error)   *)
(* ====================================================================== *)

\* codes a caller stores: a FileError entry and a negated errno
ErrorCodes == {ERR_INTERNAL_ERROR, -EIO}

\* variant of set_error_v: the code is stored only when the message could be
\* formatted
set_error_v_mut(h, code, formatted) ==
    [h |-> IF formatted THEN set_error(h, code) ELSE h,
     ret |-> IF formatted THEN OK ELSE FAILED]

\* File::set_error_v: the code is stored, then the message is formatted;
\* formatted is whether mb::format_v succeeds
set_error_v(h, code, formatted) ==
    [h |-> set_error(h, code), ret |-> IF formatted THEN OK ELSE FAILED]

\* File::set_error(error_code, fmt, ...), a public member without state check
File_set_error(code, formatted) ==
    /\ alive
    /\ LET run == set_error_v(Handle, code, formatted)
       IN  /\ StoreHandle(run.h)
           /\ Returns("set_error", code, run.ret, <<>>, UNMODIFIED)

\* File::error(): returns priv->error_code
error ==
    /\ alive
    /\ Returns("error", nullptr, error_code, <<>>, UNMODIFIED)
    /\ UNCHANGED <<state, error_code, slots>>

\* a handle whose error code is set and queried between the other operations
NextError ==
    \/ \E code \in ErrorCodes, formatted \in BOOLEAN :
          File_set_error(code, formatted)
    \/ error
    \/ \E cb \in Ptrs : set_read_callback(cb)
    \/ open
    \/ close
    \/ \E bytes_read \in Ptrs : read(bytes_read)
    \/ destroy

SpecError == Init /\ [][NextError]_vars

(* ====================================================================== *)
(* Properties of the File core                                            *)
(* ====================================================================== *)

\* the callbacks a call log may hold for an operation that dispatches to one
\* slot: nothing, or one invocation of that slot with the stored userdata
SlotOf(kind) ==
    CASE kind = "open" -> open_cb
      [] kind = "close" -> close_cb
      [] kind = "read" -> read_cb
      [] kind = "write" -> write_cb
      [] kind = "seek" -> seek_cb
      [] kind = "truncate" -> truncate_cb

\* C1: over any sequence of public operations followed by destruction, a
\* registered close callback is invoked at most once in total.
C1_CloseAtMostOnce == n_close <= 1

\* C2: once the close callback has executed, no callback of the handle is
\* invoked again, whatever operation is called afterwards.
C2_NoCallbackAfterClose == [][n_close >= 1 => calls' = <<>>]_vars

\* C3: when open() returned non-OK and the handle is then closed or destroyed
\* with no other call in between, the close callback has run exactly once.
C3_FailedOpenClosesOnce ==
    (/\ close_cb # nullptr
     /\ \/ lifetime = "open_fail_closed"
        \/ lifetime = "open_fail" /\ ~alive)
    => n_close = 1

\* C4: open() returned OK, then any read/write/seek/truncate calls, then at
\* most one close(), then destruction: the close callback ran exactly once.
C4_OpenedHandleClosesOnce ==
    (~alive /\ lifetime \in {"open_ok", "open_ok_closed"}
            /\ close_cb # nullptr)
    => n_close = 1

\* C4 witness: a handle that a file operation made FATAL was destroyed
\* without close() and its close callback ran once.
C4_Witness ==
    /\ ~alive
    /\ lifetime = "open_ok"
    /\ close_cb # nullptr
    /\ ret = FATAL
    /\ n_close = 1

\* C5: the state changes only along NEW->OPENED, NEW->FATAL, OPENED->FATAL
\* and, by close() or the destructor, any state->CLOSED.
C5_StateTransitions ==
    [][\/ state' = state
       \/ <<state, state'>> \in {<<ST_NEW, ST_OPENED>>, <<ST_NEW, ST_FATAL>>,
                                 <<ST_OPENED, ST_FATAL>>}
       \/ state' = ST_CLOSED /\ op'.name \in {"close", "~File"}]_vars

\* C6: in state NEW every setter returns OK, stores its argument in its own
\* slot only and keeps the state NEW; no other operation changes a slot; every
\* callback invocation is the one stored in the operation's slot, with the
\* stored userdata, and an operation on an OPENED handle with a filled slot
\* (and a non-null output pointer) makes exactly that one invocation.
C6_Step ==
    /\ (state = ST_NEW /\ op'.name \in Setters) =>
          /\ ret' = OK
          /\ state' = ST_NEW
          /\ calls' = <<>>
          /\ open_cb' = IF op'.name = "set_open_callback"
                        THEN op'.arg ELSE open_cb
          /\ close_cb' = IF op'.name = "set_close_callback"
                         THEN op'.arg ELSE close_cb
          /\ read_cb' = IF op'.name = "set_read_callback"
                        THEN op'.arg ELSE read_cb
          /\ write_cb' = IF op'.name = "set_write_callback"
                         THEN op'.arg ELSE write_cb
          /\ seek_cb' = IF op'.name = "set_seek_callback"
                        THEN op'.arg ELSE seek_cb
          /\ truncate_cb' = IF op'.name = "set_truncate_callback"
                            THEN op'.arg ELSE truncate_cb
          /\ cb_userdata' = IF op'.name = "set_callback_data"
                            THEN op'.arg ELSE cb_userdata
    /\ (op'.name \notin Setters) => UNCHANGED slots
    /\ \A i \in 1..Len(calls') :
          /\ calls'[i].cb = SlotOf(calls'[i].kind)
          /\ calls'[i].cb # nullptr
          /\ calls'[i].userdata = cb_userdata
    /\ (state = ST_OPENED /\ op'.name \in FileOps
            /\ SlotOf(op'.name) # nullptr
            /\ (op'.name \in {"read", "write"} => op'.arg # nullptr)) =>
          /\ Len(calls') = 1
          /\ calls'[1].kind = op'.name

C6_SettersAndDispatch == [][C6_Step]_vars

\* C6 witness: a write on an opened handle invoked the stored write callback
\* with the stored userdata, while the read slot had been cleared again.
C6_Witness ==
    /\ state = ST_OPENED
    /\ op.name = "write"
    /\ write_cb # nullptr
    /\ cb_userdata # nullptr
    /\ read_cb = nullptr
    /\ calls = <<Call("write", write_cb, cb_userdata, ret)>>

\* C7: a setter called in a state other than NEW returns FATAL, stores
\* PROGRAMMER_ERROR, makes the state FATAL and leaves every slot as it was.
C7_SetterInWrongState ==
    [][(state # ST_NEW /\ op'.name \in Setters) =>
          /\ ret' = FATAL
          /\ error_code' = ERR_PROGRAMMER_ERROR
          /\ state' = ST_FATAL
          /\ calls' = <<>>
          /\ UNCHANGED slots]_vars

\* C7 witness: set_open_callback(nullptr) was rejected and the open slot
\* still holds the callback registered before.
C7_Witness ==
    /\ op = [name |-> "set_open_callback", arg |-> nullptr]
    /\ ret = FATAL
    /\ state = ST_FATAL
    /\ error_code = ERR_PROGRAMMER_ERROR
    /\ open_cb # nullptr

C10_CloseNewOrClosed ==
    [][/\ (state \in {ST_NEW, ST_CLOSED} /\ op'.name = "close") =>
             /\ calls' = <<>>
             /\ n_close' = n_close
             /\ ret' = OK
             /\ state' = ST_CLOSED
       /\ (state = ST_NEW /\ op'.name = "~File") =>
             /\ calls' = <<>>
             /\ n_close' = n_close]_vars

\* C10 witness: a handle with all callbacks registered and never opened was
\* closed: nothing was invoked.
C10_Witness ==
    /\ op.name = "close"
    /\ lifetime = "other"
    /\ close_cb # nullptr
    /\ open_cb # nullptr
    /\ n_close = 0
    /\ state = ST_CLOSED
    /\ ret = OK

C12_NullCountPointer ==
    [][(state = ST_OPENED /\ op'.name \in {"read", "write"}
            /\ op'.arg = nullptr) =>
          /\ ret' = FATAL
          /\ error_code' = ERR_PROGRAMMER_ERROR
          /\ state' = ST_FATAL
          /\ calls' = <<>>]_vars

\* C12 witness: the first operation after a successful open() was a read()
\* with a null bytes_read on a handle whose read callback is registered.
C12_Witness ==
    /\ op = [name |-> "read", arg |-> nullptr]
    /\ lifetime = "open_ok"
    /\ read_cb # nullptr
    /\ ret = FATAL
    /\ error_code = ERR_PROGRAMMER_ERROR
    /\ state = ST_FATAL
    /\ calls = <<>>

\* C13: read, write, seek or truncate on an OPENED handle whose slot is empty
\* (read and write with a non-null output-count pointer, C12 being the other
\* case) returns UNSUPPORTED, stores UNSUPPORTED, invokes nothing and leaves
\* the state OPENED.
C13_EmptySlotUnsupported ==
    [][(/\ state = ST_OPENED
        /\ op'.name \in FileOps
        /\ SlotOf(op'.name) = nullptr
        /\ (op'.name \in {"read", "write"} => op'.arg # nullptr)) =>
          /\ ret' = UNSUPPORTED
          /\ error_code' = ERR_UNSUPPORTED
          /\ calls' = <<>>
          /\ state' = ST_OPENED]_vars

\* C13 witness: a seek on an opened handle without a seek callback was
\* refused as UNSUPPORTED and the handle, whose read callback is registered,
\* is still OPENED.
C13_Witness ==
    /\ op.name = "seek"
    /\ seek_cb = nullptr
    /\ read_cb # nullptr
    /\ ret = UNSUPPORTED
    /\ error_code = ERR_UNSUPPORTED
    /\ calls = <<>>
    /\ state = ST_OPENED

\* C14: read, write, seek or truncate on an OPENED handle with a registered
\* callback (read and write with a non-null output-count pointer) returns the
\* status of that callback's one invocation; the state becomes FATAL iff the
\* status is FATAL and stays OPENED otherwise.
C14_CallbackStatusReturned ==
    [][(/\ state = ST_OPENED
        /\ op'.name \in FileOps
        /\ SlotOf(op'.name) # nullptr
        /\ (op'.name \in {"read", "write"} => op'.arg # nullptr)) =>
          /\ Len(calls') = 1
          /\ ret' = calls'[1].result
          /\ ret' \in FileStatus
          /\ state' = ST_FATAL <=> ret' = FATAL
          /\ ret' \in {OK, RETRY, UNSUPPORTED, WARN, FAILED}
                => state' = ST_OPENED]_vars

\* C14 witness: a truncate whose callback returned FAILED left the handle
\* OPENED.
C14_Witness ==
    /\ op.name = "truncate"
    /\ calls = <<Call("truncate", truncate_cb, cb_userdata, FAILED)>>
    /\ ret = FAILED
    /\ state = ST_OPENED

\* C15: read, write, seek and truncate in a state other than OPENED, and
\* open() in a state other than NEW, return FATAL, store PROGRAMMER_ERROR,
\* make the state FATAL and invoke no callback.
C15_WrongStateOps ==
    [][(\/ state # ST_OPENED /\ op'.name \in FileOps
        \/ state # ST_NEW /\ op'.name = "open") =>
          /\ ret' = FATAL
          /\ error_code' = ERR_PROGRAMMER_ERROR
          /\ state' = ST_FATAL
          /\ calls' = <<>>]_vars

\* C15 witness: an open() on a handle whose close callback had already run
\* was refused, with its open callback registered and not invoked.
C15_Witness ==
    /\ op.name = "open"
    /\ lifetime = "other"
    /\ open_cb # nullptr
    /\ n_close = 1
    /\ ret = FATAL
    /\ error_code = ERR_PROGRAMMER_ERROR
    /\ state = ST_FATAL
    /\ calls = <<>>

\* C18: file_open_callbacks makes all eight calls whatever the setters return
\* (on a handle that is not NEW each of the eight fails) and returns the
\* minimum of the eight results; on a NEW handle that is open()'s result, and
\* the open callback is the passed one, invoked with the passed userdata,
\* with all seven values stored.
C18_OpenCallbacks ==
    [][op'.name = "file_open_callbacks" =>
          /\ Len(foc'.ret2) = 8
          /\ \A i \in 1..8 : ret' <= foc'.ret2[i]
          /\ \E i \in 1..8 : ret' = foc'.ret2[i]
          /\ state # ST_NEW => \A i \in 1..8 : foc'.ret2[i] = FATAL
          /\ state = ST_NEW =>
                /\ ret' = foc'.ret2[8]
                /\ slots' = foc'.args
                /\ IF foc'.args[1] # nullptr
                   THEN /\ calls' # <<>>
                        /\ calls'[1] = Call("open", foc'.args[1],
                                            foc'.args[7], ret')
                   ELSE calls' = <<>> /\ ret' = OK]_vars

\* C18 witness: file_open_callbacks on a handle that is NEW again after a
\* failed attempt stored its seven values, ran the passed open callback with
\* the passed userdata and returned its WARN, the seven setters having
\* returned OK.
C18_Witness ==
    /\ op.name = "file_open_callbacks"
    /\ n_close = 2
    /\ slots = foc.args
    /\ foc.ret2 = <<OK, OK, OK, OK, OK, OK, OK, WARN>>
    /\ ret = WARN
    /\ state = ST_NEW
    /\ calls[1] = Call("open", 1, 1, WARN)
    /\ read_cb # nullptr

(* ====================================================================== *)
(* Properties of the backends                                             *)
(* ====================================================================== *)

\* the native close, stat and read/write primitives of the three backends
NativeCloses == {"fn_close", "fn_fclose", "fn_CloseHandle"}
ErrnoIo == {"fn_read", "fn_write", "fn_fread", "fn_fwrite"}
NativeIo == ErrnoIo \cup {"fn_ReadFile", "fn_WriteFile"}

\* C16: every context a backend open function allocated is freed at most
\* once, and exactly once by the time the handle has been destroyed, whatever
\* the state of the handle at the open function and whatever is called after.
C16_ContextFreedOnce ==
    \A i \in 1..Len(ctxs) :
       /\ ctxs[i].frees <= 1
       /\ ~alive => ctxs[i].frees = 1

C19_DirectoryRejected ==
    [][(/\ state = ST_NEW
        /\ op'.name \in BackendOpens
        /\ Len(ctxs') = Len(ctxs) + 1
        /\ ctxs'[Len(ctxs')].res = "dir"
        /\ \A k \in 1..Len(native') :
              native'[k].fn = "fn_fstat" => native'[k].rv = "ok") =>
          /\ ret' = FAILED
          /\ error_code' = -EISDIR
          /\ \E k \in 1..Len(calls') : calls'[k].kind = "close"
          /\ state' # ST_OPENED]_vars

\* C20: when the native read or write of a read()/write() on an OPENED
\* handle fails, the negated native error is stored and the handle stays
\* OPENED; the status is RETRY when the error is the interrupted call (errno
\* EINTR of the fd and FILE primitives; the Win32 primitives report none) and
\* FAILED for every other failure.
C20_InterruptedRetry ==
    [][(state = ST_OPENED /\ op'.name \in {"read", "write"}) =>
          \A k \in 1..Len(native') :
             (native'[k].fn \in NativeIo /\ native'[k].rv = "fail") =>
                /\ ret' = IF /\ native'[k].fn \in ErrnoIo
                             /\ native'[k].errno = EINTR
                          THEN RETRY ELSE FAILED
                /\ error_code' = -native'[k].errno
                /\ state' = ST_OPENED]_vars

\* C20 witness: a read() whose fn_fread was interrupted returned RETRY with
\* -EINTR stored, on a handle that is still OPENED.
C20_Witness ==
    /\ op.name = "read"
    /\ native = <<Native("fn_fread", "fail", EINTR)>>
    /\ ret = RETRY
    /\ error_code = -EINTR
    /\ state = ST_OPENED

\* the open-by-filename functions of the three backends, the context having
\* been allocated and the mode being no FileOpenMode enumerator
OpenByNameBadMode ==
    \/ file_open_fd_filename("ok", BAD_MODE)
    \/ file_open_FILE_filename("ok", BAD_MODE)
    \/ file_open_HANDLE_filename("ok", BAD_MODE)

\* C21: opening by filename with a mode outside the FileOpenMode enumerators
\* stores INVALID_ARGUMENT and returns FATAL without a native call; the
\* allocated context is freed, the seven slots and the state of the handle
\* are what they were, so a NEW handle is left NEW.
C21_InvalidMode ==
    [][OpenByNameBadMode =>
          /\ ret' = FATAL
          /\ error_code' = ERR_INVALID_ARGUMENT
          /\ native' = <<>>
          /\ calls' = <<>>
          /\ Len(ctxs') = Len(ctxs) + 1
          /\ ctxs'[Len(ctxs')].frees = 1
          /\ slots' = slots
          /\ state' = state]_vars

\* C21 witness: _file_open_fd_filename with an invalid mode on a NEW handle
\* returned FATAL with INVALID_ARGUMENT stored; its context is freed, no
\* native call was made, no callback is set and the handle is NEW.
C21_Witness ==
    /\ op.name = "file_open_fd_filename"
    /\ ret = FATAL
    /\ error_code = ERR_INVALID_ARGUMENT
    /\ native = <<>>
    /\ Len(ctxs) = 1
    /\ ctxs[1].frees = 1
    /\ slots = <<nullptr, nullptr, nullptr, nullptr, nullptr, nullptr, nullptr>>
    /\ state = ST_NEW

(* ====================================================================== *)
(* Properties of the error code                                           *)
(* ====================================================================== *)

\* a step in which File itself called set_error: a failed state check, a
\* null count pointer or an empty slot
InternalSetError ==
    /\ op'.name \notin {"set_error", "error", "~File"}
    /\ calls' = <<>>
    /\ ret' \in {FATAL, UNSUPPORTED}

\* C22: set_error(code, ...) stores code as the handle's error code whether
\* or not the message could be formatted, returning OK when it could and
\* FAILED when it could not, and changes nothing else of the handle; error()
\* returns the stored code and changes nothing; the stored code changes only
\* in a set_error call, so error() returns the code of the most recent one.
C22_SetErrorStored ==
    [][/\ \A code \in ErrorCodes, formatted \in BOOLEAN :
             File_set_error(code, formatted) =>
                /\ error_code' = code
                /\ ret' = IF formatted THEN OK ELSE FAILED
       /\ op'.name = "set_error" =>
             /\ error_code' = op'.arg
             /\ state' = state
             /\ slots' = slots
       /\ op'.name = "error" =>
             /\ ret' = error_code
             /\ error_code' = error_code
             /\ state' = state
             /\ slots' = slots
       /\ (op.name = "set_error" /\ op'.name = "error") => ret' = op.arg
       /\ error_code' # error_code =>
             op'.name = "set_error" \/ InternalSetError]_vars

\* C22 witness: on an OPENED handle set_error(-EIO, ...) could not format its
\* message and returned FAILED, and -EIO is the stored code.
C22_Witness ==
    /\ op = [name |-> "set_error", arg |-> -EIO]
    /\ ret = FAILED
    /\ error_code = -EIO
    /\ state = ST_OPENED

(* ====================================================================== *)
(* Properties of the memory backend                                       *)
(* ====================================================================== *)

\* the handle is OPENED on a dynamic buffer that no failed truncate freed
DynamicOpened ==
    /\ state = ST_OPENED
    /\ Attached
    /\ ~mctx.fixed_size
    /\ heap.live

\* a step that writes the bytes s at a position p with p + size above the
\* size of a dynamic buffer
WriteBeyond(s) ==
    /\ op'.name = "write"
    /\ DynamicOpened
    /\ io'.args = <<s>>
    /\ mctx.pos + Len(s) > mctx.size

\* what such a write is said to do: OK, all of s written at p, the buffer
\* p + size bytes long with zeros in [old_size, p) and its bytes below
\* old_size and below p as before, the position at p + size
Grown(s) ==
    /\ ret' = OK
    /\ io'.n = Len(s)
    /\ mctx'.size = mctx.pos + Len(s)
    /\ Len(heap'.bytes) = mctx.pos + Len(s)
    /\ \A k \in 1..Len(heap'.bytes) :
          heap'.bytes[k] =
             IF k > mctx.pos THEN s[k - mctx.pos]
             ELSE IF k > mctx.size THEN 0
             ELSE heap.bytes[k]
    /\ mctx'.pos = mctx.pos + Len(s)

C24_SlotsAgree ==
    (mctx # NoMem /\ mctx.data_ptr /\ mctx.size_ptr) =>
        /\ caller.buf = mctx.data
        /\ caller.size = mctx.size

\* C24 witness: a write on a dynamic buffer made realloc move the block to
\* address 2 and grow it to 2 bytes, and the caller's slots hold address 2
\* and size 2.
C24_Witness ==
    /\ op.name = "write"
    /\ ret = OK
    /\ native = <<Native("realloc", "ok", 0)>>
    /\ mctx.data_ptr
    /\ mctx.data = 2
    /\ mctx.size = 2
    /\ caller = [buf |-> 2, size |-> 2]

\* the position a seek asks for: the base of its origin plus the offset
SeekTarget(c, offset, whence) ==
    offset + (CASE whence = SEEK_SET -> 0
                [] whence = SEEK_CUR -> c.pos
                [] whence = SEEK_END -> c.size
                [] OTHER -> 0)

\* C25: a seek on an OPENED handle of the memory backend succeeds iff whence
\* is SEEK_SET, SEEK_CUR or SEEK_END and base + offset lies in [0, SIZE_MAX];
\* then the position and the reported offset are base + offset, not clamped
\* to the buffer size; otherwise it returns FAILED with INVALID_ARGUMENT and
\* the position is unchanged.
C25_SeekExact ==
    [][(op'.name = "seek" /\ state = ST_OPENED /\ Attached) =>
          \A offset \in INT64_MIN..INT64_MAX, whence \in Whences :
             memory_seek(offset, whence) =>
                LET target == SeekTarget(mctx, offset, whence)
                IN  IF /\ whence \in {SEEK_SET, SEEK_CUR, SEEK_END}
                       /\ 0 <= target
                       /\ target <= SIZE_MAX(mctx.bits)
                    THEN /\ ret' = OK
                         /\ mctx'.pos = target
                         /\ new_offset' = target
                    ELSE /\ ret' = FAILED
                         /\ error_code' = ERR_INVALID_ARGUMENT
                         /\ mctx'.pos = mctx.pos]_vars

(* ====================================================================== *)
(* Properties of seeking and truncating                                   *)
(* ====================================================================== *)

\* the truncate callback of a live context of the given backend ran in the
\* step
Truncated(kind) ==
    /\ op'.name = "truncate"
    /\ calls' # <<>>
    /\ IF kind = "memory"
       THEN mctx # NoMem /\ mctx.frees = 0
       ELSE /\ mctx = NoMem
            /\ ctxs[cb_userdata].kind = kind
            /\ ctxs[cb_userdata].frees = 0

\* C26: after a successful truncate(size) the current file position equals
\* the position before the call, for the memory backend (every size, also
\* one below the position) and for the platform-handle backend (which moves
\* the native file pointer to size and back to the saved position).
C26_TruncateKeepsPosition ==
    [][/\ (Truncated("memory") /\ ret' = OK => mctx'.pos = mctx.pos)
       /\ (Truncated("win32") /\ ret' = OK =>
              ctxs'[cb_userdata].fpos = ctxs[cb_userdata].fpos)]_vars

\* C26 witness: a platform handle whose file pointer is at 1 was truncated
\* with the four native calls succeeding, and the pointer is at 1.
C26_Witness ==
    /\ op.name = "truncate"
    /\ ret = OK
    /\ mctx = NoMem
    /\ Attached
    /\ ctxs[cb_userdata].kind = "win32"
    /\ ctxs[cb_userdata].fpos = 1
    /\ native = <<Native("fn_SetFilePointerEx", "ok", 0),
                  Native("fn_SetFilePointerEx", "ok", 0),
                  Native("fn_SetEndOfFile", "ok", 0),
                  Native("fn_SetFilePointerEx", "ok", 0)>>

\* C27: round trip on the memory backend: for every byte string s, after
\* opening an empty dynamic buffer, writing s and seeking to offset 0 with
\* SEEK_SET, a read of Len(s) bytes returns OK with bytes_read = Len(s) and
\* exactly the bytes of s.
C27_RoundTrip ==
    round_trip.step = 4 =>
        /\ op.name = "read"
        /\ ret = OK
        /\ io.n = Len(round_trip.s)
        /\ io.bytes = round_trip.s

\* C27 witness: the bytes 1, 0 were written into an empty dynamic buffer
\* that realloc placed at address 2, and came back from the read after the
\* seek to 0.
C27_Witness ==
    /\ round_trip = [step |-> 4, s |-> <<1, 0>>]
    /\ io = [args |-> <<2>>, n |-> 2, bytes |-> <<1, 0>>]
    /\ mctx.data = 2
    /\ mctx.pos = 2

\* the native calls of a sequence, by name and by result
Fns(nat) == [i \in 1..Len(nat) |-> nat[i].fn]
Rvs(nat) == [i \in 1..Len(nat) |-> nat[i].rv]

\* C28: the truncate of the platform-handle backend reads the current
\* position, seeks to the target size, sets the end of file and seeks back
\* to the saved position, in this order. When the first or the second seek
\* fails it returns that failure (FAILED) without calling fn_SetEndOfFile;
\* when fn_SetEndOfFile fails and the restoring seek succeeds it returns
\* FAILED; when the restoring seek fails it returns FATAL and the handle
\* becomes FATAL, the file pointer being left at the target size.
C28_TruncateSteps ==
    [][Truncated("win32") =>
          LET moved == "fn_SetFilePointerEx"
              before == ctxs[cb_userdata].fpos
              after == ctxs'[cb_userdata].fpos
          IN  /\ Fns(native') \in {<<moved>>, <<moved, moved>>,
                                   <<moved, moved, "fn_SetEndOfFile", moved>>}
              /\ Len(native') < 4 =>
                    /\ Rvs(native') \in {<<"fail">>, <<"ok", "fail">>}
                    /\ ret' = FAILED
                    /\ state' = ST_OPENED
                    /\ after = before
              /\ Len(native') = 4 =>
                    /\ native'[1].rv = "ok"
                    /\ native'[2].rv = "ok"
                    /\ IF native'[4].rv = "fail"
                       THEN /\ ret' = FATAL
                            /\ state' = ST_FATAL
                            /\ after = op'.arg
                       ELSE /\ ret' = IF native'[3].rv = "fail" THEN FAILED
                                      ELSE OK
                            /\ state' = ST_OPENED
                            /\ after = before
              /\ ret' # OK => error_code' = -ERROR_INVALID_HANDLE]_vars

\* C28 witness: a truncate to size 1 of a platform handle whose pointer was
\* at 0; fn_SetEndOfFile succeeded, the restoring seek failed, the handle is
\* FATAL and the pointer is at 1.
C28_Witness ==
    /\ op = [name |-> "truncate", arg |-> 1]
    /\ ret = FATAL
    /\ state = ST_FATAL
    /\ mctx = NoMem
    /\ Attached
    /\ ctxs[cb_userdata].kind = "win32"
    /\ ctxs[cb_userdata].fpos = 1
    /\ Rvs(native) = <<"ok", "ok", "ok", "fail">>

\* the seek callback of a live context of the FILE backend ran in the step
StreamSought ==
    /\ op'.name = "seek"
    /\ calls' # <<>>
    /\ ctxs[cb_userdata].kind = "posix"
    /\ ctxs[cb_userdata].frees = 0

\* C29: a seek on a seekable stream of the FILE backend reads the old
\* position, seeks and reads the new position. When reading the old position
\* or the seek fails it returns FAILED with no further native call; when
\* reading the new position fails it seeks back to the old position and
\* returns FAILED when that succeeds and FATAL, the handle becoming FATAL,
\* when it fails.
C29_StreamSeek ==
    [][StreamSought /\ ctxs[cb_userdata].can_seek =>
          LET before == ctxs[cb_userdata].fpos
              after == ctxs'[cb_userdata].fpos
          IN  CASE Rvs(native') = <<"fail">> ->
                     /\ Fns(native') = <<"fn_ftello">>
                     /\ ret' = FAILED /\ state' = ST_OPENED
                     /\ after = before
                [] Rvs(native') = <<"ok", "fail">> ->
                     /\ Fns(native') = <<"fn_ftello", "fn_fseeko">>
                     /\ ret' = FAILED /\ state' = ST_OPENED
                     /\ after = before
                [] Rvs(native') = <<"ok", "ok", "ok">> ->
                     /\ Fns(native') = <<"fn_ftello", "fn_fseeko",
                                         "fn_ftello">>
                     /\ ret' = OK /\ state' = ST_OPENED
                     /\ new_offset' = after
                [] Rvs(native') = <<"ok", "ok", "fail", "ok">> ->
                     /\ Fns(native') = <<"fn_ftello", "fn_fseeko",
                                         "fn_ftello", "fn_fseeko">>
                     /\ ret' = FAILED /\ state' = ST_OPENED
                     /\ after = before
                [] Rvs(native') = <<"ok", "ok", "fail", "fail">> ->
                     /\ Fns(native') = <<"fn_ftello", "fn_fseeko",
                                         "fn_ftello", "fn_fseeko">>
                     /\ ret' = FATAL /\ state' = ST_FATAL
                [] OTHER -> FALSE]_vars

\* C29 witness: on a seekable stream whose position was 1 the second
\* fn_ftello failed and the seek back succeeded: FAILED, the handle OPENED
\* and the position 1.
C29_Witness ==
    /\ op.name = "seek"
    /\ ret = FAILED
    /\ state = ST_OPENED
    /\ Attached
    /\ ctxs[cb_userdata].kind = "posix"
    /\ ctxs[cb_userdata].can_seek
    /\ ctxs[cb_userdata].frees = 0
    /\ ctxs[cb_userdata].fpos = 1
    /\ Rvs(native) = <<"ok", "ok", "fail", "ok">>
    /\ error_code = -EIO

\* can_seek of context number i before the step, FALSE as create_ctx leaves
\* it when the step allocates the context
WasSeekable(i) == i <= Len(ctxs) /\ ctxs[i].can_seek

\* C30: in the FILE backend seekability is decided once, in the open
\* callback: can_seek of a context changes only in a step that runs the open
\* callback, and becomes true only when fn_fileno yields a descriptor that
\* fn_fstat reports as a regular file, or as a block device on Linux. Every
\* later seek on a stream marked non-seekable returns UNSUPPORTED with the
\* error code UNSUPPORTED, makes no native call and leaves the handle OPENED.
C30_Seekability ==
    [][/\ \A i \in 1..Len(ctxs') :
             (/\ ctxs'[i].kind = "posix"
              /\ ctxs'[i].frees = 0
              /\ ctxs'[i].can_seek # WasSeekable(i)) =>
                /\ ctxs'[i].can_seek
                /\ \E k \in 1..Len(calls') : calls'[k].kind = "open"
                /\ \E k \in 1..Len(native') :
                      native'[k] = Native("fn_fileno", "ok", 0)
                /\ \E k \in 1..Len(native') :
                      native'[k] = Native("fn_fstat", "ok", 0)
                /\ \/ ctxs'[i].res = "file"
                   \/ ctxs'[i].res = "blk" /\ ctxs'[i].linux
       /\ (StreamSought /\ ~ctxs[cb_userdata].can_seek) =>
             /\ ret' = UNSUPPORTED
             /\ error_code' = ERR_UNSUPPORTED
             /\ native' = <<>>
             /\ state' = ST_OPENED
             /\ ctxs' = ctxs]_vars

\* C30 witness: a stream on a pipe was opened, its descriptor found and
\* stat'ed, and left non-seekable; a seek on it returned UNSUPPORTED and the
\* handle is OPENED.
C30_Witness ==
    /\ op.name = "seek"
    /\ ret = UNSUPPORTED
    /\ error_code = ERR_UNSUPPORTED
    /\ state = ST_OPENED
    /\ Attached
    /\ ctxs[cb_userdata].kind = "posix"
    /\ ctxs[cb_userdata].res = "pipe"
    /\ ctxs[cb_userdata].frees = 0
    /\ ~ctxs[cb_userdata].can_seek
    /\ calls # <<>>
    /\ native = <<>>

(* ====================================================================== *)
(* Properties of reading and writing through the backends                 *)
(* ====================================================================== *)

\* the write callback of a live context of the platform-handle backend ran
\* in the step
HandleWritten ==
    /\ op'.name = "write"
    /\ calls' # <<>>
    /\ ctxs[cb_userdata].kind = "win32"
    /\ ctxs[cb_userdata].frees = 0

\* C31: with append mode active every write of the platform-handle backend
\* first seeks to the end of the file and only then calls the native write;
\* when that seek fails the native write is not called and the write returns
\* the seek's FAILED. With append mode inactive a write makes no seek.
C31_AppendSeeksFirst ==
    [][HandleWritten =>
          IF ctxs[cb_userdata].append
          THEN /\ native' # <<>>
               /\ native'[1].fn = "fn_SetFilePointerEx"
               /\ IF native'[1].rv = "fail"
                  THEN /\ Len(native') = 1
                       /\ ret' = FAILED
                       /\ error_code' = -native'[1].errno
                  ELSE Fns(native') = <<"fn_SetFilePointerEx",
                                        "fn_WriteFile">>
          ELSE Fns(native') = <<"fn_WriteFile">>]_vars

\* C31 witness: a write on an appending platform handle whose seek to the
\* end failed: FAILED, the handle OPENED and fn_WriteFile not called.
C31_Witness ==
    /\ op.name = "write"
    /\ ret = FAILED
    /\ state = ST_OPENED
    /\ Attached
    /\ ctxs[cb_userdata].kind = "win32"
    /\ ctxs[cb_userdata].append
    /\ ctxs[cb_userdata].frees = 0
    /\ native = <<Native("fn_SetFilePointerEx", "fail",
                         ERROR_INVALID_HANDLE)>>

\* the callback cb of the memory backend ran in the step, on a context that
\* is allocated
MemoryRan(name) ==
    /\ op'.name = name
    /\ calls' # <<>>
    /\ mctx # NoMem
    /\ mctx.frees = 0

\* C32: a write of the memory backend whose position + size exceeds SIZE_MAX
\* returns FAILED with INVALID_ARGUMENT before any reallocation or copy, on
\* fixed and dynamic buffers alike: the buffer contents, the size, the
\* position and the caller's pointer and size slots are unchanged and the
\* handle stays OPENED.
C32_WriteOverflow ==
    [][(/\ MemoryRan("write")
        /\ mctx.pos + Len(io'.args[1]) > SIZE_MAX(mctx.bits)) =>
          /\ ret' = FAILED
          /\ error_code' = ERR_INVALID_ARGUMENT
          /\ native' = <<>>
          /\ io'.n = UNMODIFIED
          /\ mctx' = mctx
          /\ heap' = heap
          /\ caller' = caller
          /\ state' = ST_OPENED]_vars

\* C32 witness: on a fixed buffer of the narrow build, positioned at
\* SIZE_MAX, a write of one byte failed with INVALID_ARGUMENT.
C32_Witness ==
    /\ op.name = "write"
    /\ ret = FAILED
    /\ error_code = ERR_INVALID_ARGUMENT
    /\ state = ST_OPENED
    /\ mctx # NoMem
    /\ mctx.fixed_size
    /\ mctx.pos = SIZE_MAX(mctx.bits)
    /\ Len(io.args[1]) = 1
    /\ calls # <<>>

\* what a write of the bytes s does to a fixed buffer: the count is what
\* fits between the position and the end, the block changes at
\* [pos, pos + count) only and the position advances by the count
FixedWritten(s) ==
    LET p == mctx.pos
        n == IF p <= mctx.size THEN Min(Len(s), mctx.size - p) ELSE 0
    IN  /\ ret' = OK
        /\ io'.n = n
        /\ mctx' = [mctx EXCEPT !.pos = p + n]
        /\ heap'.live
        /\ Len(heap'.bytes) = Len(heap.bytes)
        /\ \A k \in 1..Len(heap.bytes) :
              heap'.bytes[k] = IF p < k /\ k <= p + n THEN s[k - p]
                               ELSE heap.bytes[k]
        /\ caller' = caller
        /\ native' = <<>>
        /\ state' = ST_OPENED

\* C33 as stated: on a fixed-size buffer every write returns OK with
\* bytes_written = min(size, buffer_size - p) when p <= buffer_size and 0
\* when p > buffer_size, changes only bytes [p, p + bytes_written), keeps the
\* buffer size and advances the position by bytes_written.
C33_Original ==
    [][(MemoryRan("write") /\ mctx.fixed_size) =>
          FixedWritten(io'.args[1])]_vars

\* C33: on a fixed-size buffer a write of size bytes at position p with
\* p + size <= SIZE_MAX returns OK with bytes_written = min(size,
\* buffer_size - p) when p <= buffer_size and 0 when p > buffer_size, changes
\* only bytes [p, p + bytes_written), keeps the buffer size and advances the
\* position by bytes_written; with p + size > SIZE_MAX it returns FAILED with
\* INVALID_ARGUMENT and changes nothing.
C33_FixedWrite ==
    [][(MemoryRan("write") /\ mctx.fixed_size) =>
          IF mctx.pos + Len(io'.args[1]) <= SIZE_MAX(mctx.bits)
          THEN FixedWritten(io'.args[1])
          ELSE /\ ret' = FAILED
               /\ error_code' = ERR_INVALID_ARGUMENT
               /\ io'.n = UNMODIFIED
               /\ mctx' = mctx
               /\ heap' = heap]_vars

\* C33 witness: a write of two bytes at the last byte of a fixed buffer of
\* two bytes stored one byte and moved the position to the end.
C33_Witness ==
    /\ op.name = "write"
    /\ ret = OK
    /\ mctx # NoMem
    /\ mctx.fixed_size
    /\ mctx.size = 2
    /\ mctx.pos = 2
    /\ Len(io.args[1]) = 2
    /\ io.n = 1
    /\ heap.bytes[2] = io.args[1][1]

\* what a read of size bytes hands back from the buffer: the count is what
\* lies between the position and the end, the bytes are those of the block
\* from the position on, the position advances by the count and nothing else
\* changes
BufferRead(size) ==
    LET p == mctx.pos
        n == IF p < mctx.size THEN Min(size, mctx.size - p) ELSE 0
    IN  /\ ret' = OK
        /\ io'.n = n
        /\ n > 0 => heap.live
        /\ io'.bytes = IF n > 0 THEN Slice(heap.bytes, p, n) ELSE <<>>
        /\ mctx' = [mctx EXCEPT !.pos = p + n]
        /\ heap' = heap
        /\ caller' = caller
        /\ state' = ST_OPENED

\* C34: a read of size bytes at position p returns OK with bytes_read =
\* min(size, buffer_size - p) when p < buffer_size and 0 when p >=
\* buffer_size; the returned bytes are buffer[p, p + bytes_read), the
\* position advances by bytes_read and the buffer is unchanged.
C34_Read ==
    [][MemoryRan("read") => BufferRead(io'.args[1])]_vars

\* what truncate(n) does to a buffer: nothing but UNSUPPORTED when the
\* buffer is fixed; FAILED and nothing else when realloc reports a failure
\* and keeps the block; otherwise a block of exactly n bytes that holds the
\* old bytes below min(old size, n) and zeros above them, with the caller's
\* slots pointing at it
BufferTruncated(n) ==
    IF mctx.fixed_size
    THEN /\ ret' = UNSUPPORTED
         /\ error_code' = ERR_UNSUPPORTED
         /\ native' = <<>>
         /\ mctx' = mctx
         /\ heap' = heap
         /\ caller' = caller
         /\ state' = ST_OPENED
    ELSE IF native'[1].rv = "fail" /\ heap'.live
    THEN /\ ret' = FAILED
         /\ mctx' = mctx
         /\ heap' = heap
         /\ caller' = caller
    ELSE /\ ret' = OK
         /\ mctx'.size = n
         /\ mctx'.pos = mctx.pos
         /\ heap'.live
         /\ Len(heap'.bytes) = n
         /\ \A k \in 1..Len(heap'.bytes) :
               heap'.bytes[k] = IF k <= mctx.size THEN heap.bytes[k] ELSE 0
         /\ caller' = [buf |-> mctx'.data, size |-> n]

\* C35: truncate(n) on a fixed-size buffer returns UNSUPPORTED with error
\* code UNSUPPORTED, changes nothing and leaves the handle OPENED; on a
\* dynamic buffer, unless the allocator is out of memory, it returns OK,
\* makes the size exactly n, preserves bytes [0, min(old_size, n)), sets
\* bytes [old_size, n) to zero and updates the caller's pointer and size.
C35_Truncate ==
    [][(MemoryRan("truncate") /\ heap.live) =>
          BufferTruncated(io'.args[1])]_vars

(* ====================================================================== *)
(* Properties of the byte counts                                         *)
(* ====================================================================== *)

\* the largest byte count the backend of context c hands to a native read or
\* write in a build whose size_t has bits bits
MaxCount(c, bits) == IF c.kind = "fd" THEN SSIZE_MAX(bits) ELSE UINT_MAX

\* C36: the fd backend passes min(size, SSIZE_MAX) and the win32 backend
\* min(size, UINT_MAX) as the byte count of the native read or write, so the
\* count it reports never exceeds that maximum, and a request above it whose
\* native call succeeds returns OK with a count below the size asked for.
C36_SizeClamped ==
    [][(/\ op'.name \in {"read", "write"}
        /\ xfer'.passed >= 0) =>
          LET c == ctxs[cb_userdata]
              max == MaxCount(c, xfer'.bits)
          IN  /\ xfer'.passed = Min(xfer'.size, max)
              /\ ret' = OK <=> native'[Len(native')].rv = "ok"
              /\ ret' = OK => /\ xfer'.n <= xfer'.passed
                              /\ xfer'.n <= max
              /\ ret' = OK /\ xfer'.size > max => xfer'.n < xfer'.size]_vars

\* C36 witness: a read of more than SSIZE_MAX bytes from a descriptor was
\* passed on as a read of SSIZE_MAX bytes and returned OK with SSIZE_MAX
\* bytes.
C36_Witness ==
    /\ op.name = "read"
    /\ ret = OK
    /\ cb_userdata # nullptr
    /\ ctxs[cb_userdata].kind = "fd"
    /\ xfer.size > SSIZE_MAX(xfer.bits)
    /\ xfer.passed = SSIZE_MAX(xfer.bits)
    /\ xfer.n = SSIZE_MAX(xfer.bits)
    /\ native = <<Native("fn_read", "ok", 0)>>

(* ====================================================================== *)
(* Properties of File::seek's output parameter                            *)
(* ====================================================================== *)

\* C37: File::seek hands the seek callback a non-null output slot, also
\* when the caller's new_offset is null; the caller's new_offset receives
\* the value the callback stored iff it is non-null and the callback
\* returned OK, and is left unmodified for every other result.
C37_SeekOutput ==
    [][(op'.name = "seek" /\ calls' # <<>>) =>
          /\ calls'[1].kind = "seek"
          /\ calls'[1].slot # nullptr
          /\ IF op'.arg # nullptr /\ ret' = OK
             THEN new_offset' = calls'[1].value
             ELSE new_offset' = UNMODIFIED]_vars

\* C37 witness: a seek with a null new_offset whose callback returned OK
\* after storing an offset in the slot it was given; nothing was written for
\* the caller.
C37_Witness ==
    /\ op = [name |-> "seek", arg |-> nullptr]
    /\ ret = OK
    /\ state = ST_OPENED
    /\ Len(calls) = 1
    /\ calls[1].slot = new_offset_temp
    /\ calls[1].value = 1
    /\ new_offset = UNMODIFIED

(* ====================================================================== *)
(* Properties of file_open_callbacks on a used handle                     *)
(* ====================================================================== *)

\* C38: file_open_callbacks on a handle that is not in state NEW returns
\* FATAL, leaves the six callback slots and the userdata as they were,
\* invokes no callback, in particular not the close callback passed to it,
\* and leaves the handle in state FATAL.
C38_OpenCallbacksRefused ==
    [][(op'.name = "file_open_callbacks" /\ state # ST_NEW) =>
          /\ ret' = FATAL
          /\ slots' = slots
          /\ calls' = <<>>
          /\ n_close' = n_close
          /\ state' = ST_FATAL]_vars

\* C38 witness: file_open_callbacks with fresh open and close callbacks and
\* userdata on a handle that had been opened with none: it returned FATAL,
\* the slots are still empty and no callback ran.
C38_Witness ==
    /\ op.name = "file_open_callbacks"
    /\ ret = FATAL
    /\ state = ST_FATAL
    /\ foc.args[1] # nullptr
    /\ foc.args[2] # nullptr
    /\ foc.args[7] # nullptr
    /\ open_cb = nullptr
    /\ close_cb = nullptr
    /\ cb_userdata = nullptr
    /\ calls = <<>>
    /\ n_close = 0

(* ====================================================================== *)
(* Properties of the memory backend's buffer accesses                     *)
(* ====================================================================== *)

\* C39: over any sequence of read, write, seek and truncate calls on a fixed
\* or dynamic buffer, every byte index a callback reads or writes lies in an
\* allocated buffer and below the size that buffer has at that moment,
\* wherever the position is.
C39_AccessInBounds ==
    \A i \in access.acc : access.live /\ 0 <= i /\ i < access.cap

====
